---- MODULE Spec2Model ----
(***************************************************************************)
(* Out-of-core merge sort of a binary record file by an in-memory index:     *)
(* record/index model, progress gate, FastFlow farm with feedback, OpenMP    *)
(* task recursion, MPI pairwise merge tree and the rewriter.                 *)
(*                                                                         *)
(* One set of variables is shared by several specifications, one per        *)
(* driver of the repository; a specification leaves the variables of the    *)
(* other drivers at their idle values.                                      *)
(***************************************************************************)
EXTENDS Integers, Sequences, FiniteSets, TLC

(***************************** bounds ***************************************)
\* largest record count
MaxN == 3
\* largest sort key
MaxKey == 1
\* largest leaf cutoff
MaxCutoff == 2
\* largest number of farm workers / pool threads
MaxWorkers == 3
\* waiters of the stand-alone gate
NumWaiters == 2

(************************ program constants *********************************)
KEY_SZ == 8
LEN_SZ == 4
MinPayload == 8

NULL == 0

VARIABLES
  \* ---- inputs of one run
  N,          \* opt.n_records
  cutoff,     \* opt.cutoff
  file,       \* the records of the unsorted file: <<[key, len], ...>>
  \* ---- index and progress gate
  idx,        \* IndexRec array, positions 0..N-1
  filled,     \* ProgressGate::filled / g_filled
  gate_arg,   \* argument of the last notify call (-1: none yet)
  waiters,    \* stand-alone gate: callers of wait_until
  \* ---- index builder
  bi,         \* loop index i of build_index_mmap = entries written
  bpos,       \* pos
  bpc,        \* "idle" | "done": build_index_mmap has returned | "crashed"
  oob,        \* ghost: the builder has read outside the mapping
  file_sz,    \* st_size of the input file (smaller than the records: truncated)
  uninit,     \* ghost: a sort or merge has read an entry not yet written
  \* ---- FastFlow farm (ff_mmap.cpp, fastflow.cpp)
  W,          \* number of workers
  tasks,      \* the Task objects in allocation order; a pointer is an index
  inq,        \* worker input channels (FIFO), worker 0..W-1
  fb,         \* feedback channels worker -> emitter (FIFO)
  nextw,      \* round-robin cursor of the load balancer
  epc,        \* emitter: "start" | "run" | "check" | "done"
  ein,        \* emitter: the task pointer passed to svc
  eparent,    \* emitter: the local `parent` of Emitter::svc
  wpc,        \* worker: "idle" | "svc" | "sort" | "done"
  wcur,       \* worker: the task pointer passed to svc
  enq,        \* ghost: how often each task was passed to ff_send_out
  reports,    \* ghost: completion messages the emitter has taken, per parent
  ran,        \* ghost: how often each task's work has executed
  freed,      \* ghost: how often each task was deleted
  uaf,        \* ghost: a field of a deleted task was read
  \* ---- OpenMP task recursion (omp_mmap.cpp)
  T,          \* threads of the parallel region
  otasks,     \* explicit tasks in creation order: kind, range, parent, st
  ostack,     \* per thread: the tied tasks it is executing, innermost last
  opc,        \* the implicit task that runs `single`: "single" | "taskwait" | "done"
  \* ---- distributed driver (mpi_omp_mmap.cpp)
  P,          \* world_size
  local,      \* per rank: local_index
  rpc,        \* per rank: "scan" | "recv" | "sort" | "tree" | "done"
  rround,     \* per rank: round of pairwise_merge_tree
  net,        \* messages sent and not yet received: src, dst, tag, data
  per_rank,   \* rank 0: the slices under construction
  send_req,   \* rank 0: per rank, the request of the MPI_Isend: "null" | "posted"
  \* ---- rewrite_sorted_mmap (utils.hpp)
  out_map,    \* the mapped output file
  out_off,    \* output cursor
  ri,         \* loop index of the copy loop
  rwpc,       \* "off" | "open" | "copy" | "done" | "failed" | "crashed"
  wrote,      \* ghost: the cursor at which each entry was written
  \* ---- main of the sequential path and check_if_sorted_mmap
  mpc,        \* "off" | "parse" | "build" | "sort" | "rewrite" | "check" | "exit0" | "exit1" | "killed"
  cpos,       \* check_if_sorted_mmap: pos
  ci,         \* check_if_sorted_mmap: i
  prev_key,   \* check_if_sorted_mmap: prev_key
  cres,       \* check_if_sorted_mmap: "none" | "run" | "sorted" | "eof" | "order" | "ioerr"
  unlink_res  \* the unlink of the output file: "none" (not called) | "ok" | "failed"

gateVars == <<filled, gate_arg, waiters>>
buildVars == <<bi, bpos, bpc, oob>>
inputVars == <<N, cutoff, file, file_sz>>
farmVars == <<W, tasks, inq, fb, nextw, epc, ein, eparent, wpc, wcur,
              enq, reports, ran, freed, uaf>>
ompVars == <<T, otasks, ostack, opc>>
mpiVars == <<P, local, rpc, rround, net, per_rank, send_req>>
rwVars == <<out_map, out_off, ri, rwpc, wrote>>
seqVars == <<mpc, cpos, ci, prev_key, cres, unlink_res>>
vars == <<inputVars, idx, uninit, gateVars, buildVars, farmVars, ompVars, mpiVars, rwVars,
          seqVars>>

\* what each driver leaves alone of the other drivers' state
gateFrame == <<inputVars, idx, uninit, buildVars, farmVars, ompVars, mpiVars, rwVars,
               seqVars>>
farmFrame == <<waiters, ompVars, mpiVars, rwVars, seqVars>>
ompFrame == <<waiters, farmVars, mpiVars, rwVars, seqVars>>
mpiFrame == <<idx, uninit, gateVars, bpc, oob, farmVars, ompVars, rwVars, seqVars>>
rwFrame == <<uninit, gateVars, bi, bpos, bpc, farmVars, ompVars, mpiVars, seqVars>>
seqFrame == <<uninit, gateVars, farmVars, ompVars, mpiVars>>

(***************************** helpers **************************************)
Max(a, b) == IF a >= b THEN a ELSE b
Min(a, b) == IF a <= b THEN a ELSE b

RECURSIVE SumSeq(_)
SumSeq(s) == IF s = <<>> THEN 0 ELSE Head(s) + SumSeq(Tail(s))

Keys == 0..MaxKey
PayloadLens == {MinPayload, MinPayload + 1}

\* the files of n records; for the sort drivers the payload lengths alternate
Files(n) == [1..n -> [key : Keys, len : PayloadLens]]
SortFiles(n) == {f \in Files(n) : \A i \in 1..n : f[i].len = MinPayload + (i % 2)}

(************************ binary record format ******************************)
\* n little-endian bytes of v (host byte order, no translation)
RECURSIVE EncodeLE(_, _)
EncodeLE(v, n) == IF n = 0 THEN <<>> ELSE <<v % 256>> \o EncodeLE(v \div 256, n - 1)

\* memcpy(&x, base + pos, n): the value of the n bytes at pos
RECURSIVE DecodeLE(_, _, _)
DecodeLE(bytes, pos, n) ==
  IF n = 0 THEN 0 ELSE bytes[pos + 1] + 256 * DecodeLE(bytes, pos + 1, n - 1)

\* payload byte j of the i-th record written by the generator
PayloadByte(i, j) == (16 * i + j) % 256

RecordBytes(f, i) ==
  EncodeLE(f[i].key, KEY_SZ) \o EncodeLE(f[i].len, LEN_SZ)
    \o [j \in 1..f[i].len |-> PayloadByte(i, j)]

RECURSIVE FileBytesUpTo(_, _)
FileBytesUpTo(f, n) ==
  IF n = 0 THEN <<>> ELSE FileBytesUpTo(f, n - 1) \o RecordBytes(f, n)

\* the bytes the generator writes for f, and the mapped input file
FileSize(f) == Len(FileBytesUpTo(f, Len(f)))
InputBytes == SubSeq(FileBytesUpTo(file, Len(file)), 1, file_sz)

ReadKey(bytes, pos) == DecodeLE(bytes, pos, KEY_SZ)
ReadLen(bytes, pos) == DecodeLE(bytes, pos + KEY_SZ, LEN_SZ)

IndexRec(k, o, l) == [key |-> k, offset |-> o, len |-> l]

\* contents of freshly malloc'ed index memory
Garbage(k) == IndexRec(k, 0, 0)


(***************************** ProgressGate *********************************)
\* ProgressGate::notify / notify_filled: the new value of filled
NotifyMax(cur, filled_now) == Max(cur, filled_now)
NotifyValue(cur, filled_now) == filled_now

\* the predicate of cv.wait in wait_until / wait_until_filled
WaitPredAlways(need) == TRUE
WaitPred(need) == filled >= need

GateNotify(m) ==
  /\ filled' = NotifyValue(filled, m)
  /\ gate_arg' = m

(************************ sorting primitives ********************************)
\* base[l..r] as a sequence, and a sequence written back at base + l
Slice(base, l, r) == [k \in 1..(r - l + 1) |-> base[l + k - 1]]
Splice(base, l, s) ==
  [p \in DOMAIN base |-> IF p >= l /\ p < l + Len(s) THEN s[p - l + 1] ELSE base[p]]

IsSortedSeq(s) == \A k \in 1..(Len(s) - 1) : s[k].key <= s[k + 1].key

Perms(n) == {p \in [1..n -> 1..n] : \A a, b \in 1..n : a # b => p[a] # p[b]}

\* std::sort with the comparator a.key < b.key: ascending by key, the order of
\* entries with equal keys is not specified
SortOutcomes(s) ==
  {t \in {[k \in 1..Len(s) |-> s[p[k]]] : p \in Perms(Len(s))} : IsSortedSeq(t)}

\* std::inplace_merge with the comparator a.key < b.key: the two-finger merge;
\* an entry of the second run goes first only when its key is smaller (stable)
RECURSIVE MergeSeq(_, _)
MergeSeq(a, b) ==
  IF a = <<>> THEN b
  ELSE IF b = <<>> THEN a
  ELSE IF b[1].key < a[1].key THEN <<b[1]>> \o MergeSeq(a, Tail(b))
  ELSE <<a[1]>> \o MergeSeq(Tail(a), b)

\* merge_records(base, left, mid, right)
merge_records(base, left, mid, right) ==
  Splice(base, left, MergeSeq(Slice(base, left, mid), Slice(base, mid + 1, right)))

\* sort_records(base + left, n): the arrays it may leave
sort_records_any_order(base, left, n) ==
  {Splice(base, left, [k \in 1..n |-> base[left + p[k] - 1]]) : p \in Perms(n)}
sort_records(base, left, n) ==
  {Splice(base, left, t) : t \in SortOutcomes(Slice(base, left, left + n - 1))}

(***************************** IndexBuilder *********************************)
\* the index a complete scan of file f yields
RECURSIVE OffsetOf(_, _)
OffsetOf(f, i) ==
  IF i = 0 THEN 0 ELSE OffsetOf(f, i - 1) + KEY_SZ + LEN_SZ + f[i].len
BuiltIndex(f) ==
  [p \in 0..(Len(f) - 1) |-> IndexRec(f[p + 1].key, OffsetOf(f, p), f[p + 1].len)]

\* the argument of the notify of loop iteration i
FilledNowAhead(i) == i + 2
FilledNow(i) == i + 1

\* the loop notifies when the gate is in use and filled_now is a multiple of
\* notify_every
ShouldNotifyAlways(filled_now, notify_every) == TRUE
ShouldNotify(filled_now, notify_every) ==
  notify_every > 0 /\ filled_now % notify_every = 0

\* one iteration of the scan loop of build_index_mmap /
\* build_index_mmap_progressive, with notify_every = cutoff
\* the header of the record at pos lies inside the mapping
HeaderMapped(pos) == pos + KEY_SZ + LEN_SZ <= file_sz

\* pos after the record: the loop adds sizeof key, sizeof len and len
NextPosNoLen(pos, len) == pos + KEY_SZ + LEN_SZ
NextPos(pos, len) == pos + KEY_SZ + LEN_SZ + len

\* the bytes of a mapping as a read up to byte n sees them when it does not
\* fault: the tail of the last page past the end of the file reads as 0
ZeroPadded(bytes, n) ==
  [k \in 1..Max(Len(bytes), n) |-> IF k <= Len(bytes) THEN bytes[k] ELSE 0]

\* the body of the scan loop up to the notify. There is no bounds check: a
\* header outside the mapping is read all the same, which either kills the
\* process (SIGBUS/SIGSEGV) or yields the bytes that are there
ScanRecord ==
  /\ bi < N /\ bpc = "idle"
  /\ oob' = (oob \/ ~HeaderMapped(bpos))
  /\ \/ LET bytes == ZeroPadded(InputBytes, bpos + KEY_SZ + LEN_SZ)
            key == ReadKey(bytes, bpos)
            len == ReadLen(bytes, bpos)
        IN /\ idx' = [idx EXCEPT ![bi] = IndexRec(key, bpos, len)]
           /\ bpos' = NextPos(bpos, len)
           /\ bi' = bi + 1
           /\ UNCHANGED bpc
     \/ /\ ~HeaderMapped(bpos)
        /\ bpc' = "crashed"
        /\ UNCHANGED <<idx, bpos, bi>>

BuildScan ==
  /\ ScanRecord
  /\ IF bi' # bi /\ ShouldNotify(FilledNow(bi), cutoff)
       THEN GateNotify(FilledNow(bi))
       ELSE UNCHANGED <<filled, gate_arg>>

\* after the loop: the final notify(n), munmap, close
BuildFinal ==
  /\ bi = N /\ bpc = "idle"
  /\ GateNotify(N)
  /\ bpc' = "done"
  /\ UNCHANGED <<idx, bi, bpos, oob>>

IdleWaiters == [w \in 1..NumWaiters |-> [need |-> 0, st |-> "idle"]]

(************************* idle values of the drivers ***********************)
FarmIdle ==
  /\ W = 0 /\ tasks = <<>> /\ inq = <<>> /\ fb = <<>> /\ nextw = 0
  /\ epc = "off" /\ ein = NULL /\ eparent = NULL /\ wpc = <<>> /\ wcur = <<>>
  /\ enq = <<>> /\ reports = <<>> /\ ran = <<>> /\ freed = <<>> /\ uaf = FALSE
OmpIdle ==
  /\ T = 0 /\ otasks = <<>> /\ ostack = <<>> /\ opc = "off"
MpiIdle ==
  /\ P = 0 /\ local = <<>> /\ rpc = <<>> /\ rround = <<>> /\ net = {} /\ per_rank = <<>>
  /\ send_req = <<>>
SeqIdle ==
  /\ mpc = "off" /\ cpos = 0 /\ ci = 0 /\ prev_key = 0 /\ cres = "none"
  /\ unlink_res = "none"
RwIdle ==
  /\ out_map = <<>> /\ out_off = 0 /\ ri = 0 /\ rwpc = "off" /\ wrote = <<>>

(******************** FastFlow farm with feedback: ff_mmap.cpp **************)
EOS == -1
Workers == 0..(W - 1)

Task(kind, l, m, r, parent) ==
  [kind |-> kind, left |-> l, mid |-> m, right |-> r, parent |-> parent,
   is_ready |-> FALSE]

\* build_tasks: span <= cutoff makes a leaf
IsLeafShort(l, r, c) == r - l <= c
IsLeaf(l, r, c) == r - l + 1 <= c

\* build_tasks: the tasks allocated, appended to arena in allocation order
RECURSIVE build_tasks(_, _, _, _, _)
build_tasks(l, r, parent, c, arena) ==
  IF IsLeaf(l, r, c)
    THEN Append(arena, Task("Sort", l, 0, r, parent))
    ELSE LET m == (l + r) \div 2
             t == Len(arena) + 1
             a1 == Append(arena, Task("Merge", l, m, r, parent))
             a2 == build_tasks(l, m, t, c, a1)
         IN build_tasks(m + 1, r, t, c, a2)

TaskIds(arena) == [k \in 1..Len(arena) |-> k]
IdsOfKind(arena, kind) ==
  LET Test(k) == arena[k].kind = kind IN SelectSeq(TaskIds(arena), Test)

\* ff_send_out of a list of tasks: the load balancer deals them round-robin
RECURSIVE SendAll(_, _, _)
SendAll(q, nw, ids) ==
  IF ids = <<>> THEN q
  ELSE SendAll([q EXCEPT ![nw] = Append(@, Head(ids))], (nw + 1) % W, Tail(ids))

Zeros(arena) == [k \in 1..Len(arena) |-> 0]

\* Emitter::svc_init: the BuildIndex task first, then the tree; every leaf is
\* sent out as it is created
EmitterSvcInit ==
  /\ epc = "start"
  /\ LET b == Task("BuildIndex", 0, 0, 0, NULL)
         arena == build_tasks(0, N - 1, NULL, cutoff, <<b>>)
         out == <<1>> \o IdsOfKind(arena, "Sort")
     IN /\ tasks' = arena
        /\ inq' = SendAll(inq, nextw, out)
        /\ nextw' = (nextw + Len(out)) % W
        /\ enq' = [k \in 1..Len(arena) |-> IF arena[k].kind = "Merge" THEN 0 ELSE 1]
        /\ reports' = Zeros(arena) /\ ran' = Zeros(arena) /\ freed' = Zeros(arena)
  /\ epc' = "run"
  /\ UNCHANGED <<inputVars, idx, uninit, gateVars, buildVars, farmFrame,
                 W, fb, ein, eparent, wpc, wcur, uaf>>

\* Emitter::svc: has the other child of `in` reported already?
SiblingDoneAlways(in) == TRUE
SiblingDone(in) == tasks[in].is_ready

\* Emitter::svc for a parent pointer returned by worker w
EmitterSvc(w) ==
  /\ epc = "run"
  /\ fb[w] # <<>>
  /\ LET in == Head(fb[w])
     IN /\ fb' = [fb EXCEPT ![w] = Tail(@)]
        /\ uaf' = (uaf \/ freed[in] > 0)
        /\ reports' = [reports EXCEPT ![in] = @ + 1]
        /\ IF ~SiblingDone(in)
             THEN /\ tasks' = [tasks EXCEPT ![in].is_ready = TRUE]
                  /\ UNCHANGED <<inq, nextw, enq, epc, ein, eparent>>
             ELSE /\ eparent' = tasks[in].parent
                  /\ ein' = in
                  /\ inq' = [inq EXCEPT ![nextw] = Append(@, in)]
                  /\ nextw' = (nextw + 1) % W
                  /\ enq' = [enq EXCEPT ![in] = @ + 1]
                  /\ epc' = "check"
                  /\ UNCHANGED tasks
  /\ UNCHANGED <<inputVars, idx, uninit, gateVars, buildVars, farmFrame,
                 W, wpc, wcur, ran, freed>>

\* the end of the stream: the load balancer puts EOS behind the tasks of
\* every worker
BroadcastAhead(q) == [w \in DOMAIN q |-> <<EOS>> \o q[w]]
Broadcast(q) == [w \in DOMAIN q |-> Append(q[w], EOS)]

\* Emitter::svc after ff_send_out(in): `if (!parent) return EOS;` on the local
\* copy of in->parent
EmitterCheckDeref ==
  /\ epc = "check"
  /\ uaf' = (uaf \/ freed[ein] > 0)
  /\ IF tasks[ein].parent = NULL
       THEN inq' = Broadcast(inq) /\ epc' = "done"
       ELSE inq' = inq /\ epc' = "run"
  /\ ein' = NULL /\ eparent' = NULL
  /\ UNCHANGED <<inputVars, idx, uninit, gateVars, buildVars, farmFrame,
                 W, tasks, fb, nextw, wpc, wcur, enq, reports, ran, freed>>
EmitterCheck ==
  /\ epc = "check"
  /\ IF eparent = NULL
       THEN inq' = Broadcast(inq) /\ epc' = "done"
       ELSE inq' = inq /\ epc' = "run"
  /\ ein' = NULL /\ eparent' = NULL
  /\ UNCHANGED <<inputVars, idx, uninit, gateVars, buildVars, farmFrame,
                 W, tasks, fb, nextw, wpc, wcur, enq, reports, ran, freed, uaf>>

\* the load balancer stops once every worker has ended its feedback stream
EmitterAllEOS ==
  /\ epc = "run"
  /\ \A w \in Workers : wpc[w] = "done" /\ fb[w] = <<>>
  /\ epc' = "done"
  /\ UNCHANGED <<inputVars, idx, uninit, gateVars, buildVars, farmFrame,
                 W, tasks, inq, fb, nextw, ein, eparent, wpc, wcur,
                 enq, reports, ran, freed, uaf>>

\* a worker thread takes the next item of its input channel; EOS ends it
WorkerPop(w) ==
  /\ wpc[w] = "idle"
  /\ inq[w] # <<>>
  /\ LET t == Head(inq[w])
     IN /\ inq' = [inq EXCEPT ![w] = Tail(@)]
        /\ IF t = EOS
             THEN /\ wpc' = [wpc EXCEPT ![w] = "done"]
                  /\ UNCHANGED <<wcur, uaf>>
             ELSE /\ wpc' = [wpc EXCEPT ![w] = "svc"]
                  /\ wcur' = [wcur EXCEPT ![w] = t]
                  /\ uaf' = (uaf \/ freed[t] > 0)
  /\ UNCHANGED <<inputVars, idx, uninit, gateVars, buildVars, farmFrame,
                 W, tasks, fb, nextw, epc, ein, eparent, enq, reports, ran, freed>>

\* `delete t; return r;` of Worker::svc. FastFlow takes a null returned by svc
\* for the end of the stream: the worker thread stops
DeleteAndReturn(w, r) ==
  /\ ran' = [ran EXCEPT ![wcur[w]] = @ + 1]
  /\ freed' = [freed EXCEPT ![wcur[w]] = @ + 1]
  /\ wcur' = [wcur EXCEPT ![w] = NULL]
  /\ IF r = NULL
       THEN wpc' = [wpc EXCEPT ![w] = "done"] /\ fb' = fb
       ELSE wpc' = [wpc EXCEPT ![w] = "idle"] /\ fb' = [fb EXCEPT ![w] = Append(@, r)]

\* Worker::svc, case BuildIndex: one iteration of the scan
WorkerBuildScan(w) ==
  /\ wpc[w] = "svc"
  /\ tasks[wcur[w]].kind = "BuildIndex"
  /\ BuildScan
  /\ UNCHANGED <<inputVars, uninit, farmFrame, farmVars>>

\* Worker::svc, case BuildIndex: the end of build_index_mmap; delete t; GO_ON
WorkerBuildFinal(w) ==
  /\ wpc[w] = "svc"
  /\ tasks[wcur[w]].kind = "BuildIndex"
  /\ BuildFinal
  /\ ran' = [ran EXCEPT ![wcur[w]] = @ + 1]
  /\ freed' = [freed EXCEPT ![wcur[w]] = @ + 1]
  /\ wcur' = [wcur EXCEPT ![w] = NULL]
  /\ wpc' = [wpc EXCEPT ![w] = "idle"]
  /\ UNCHANGED <<inputVars, uninit, farmFrame,
                 W, tasks, inq, fb, nextw, epc, ein, eparent, enq, reports, uaf>>

\* Worker::svc, case Sort: g_gate.wait_until(R + 1) returns
WorkerWait(w) ==
  /\ wpc[w] = "svc"
  /\ tasks[wcur[w]].kind = "Sort"
  /\ WaitPred(tasks[wcur[w]].right + 1)
  /\ wpc' = [wpc EXCEPT ![w] = "sort"]
  /\ UNCHANGED <<inputVars, idx, uninit, gateVars, buildVars, farmFrame,
                 W, tasks, inq, fb, nextw, epc, ein, eparent, wcur,
                 enq, reports, ran, freed, uaf>>

\* Worker::svc, case Sort: sort_records, delete t, return parent
WorkerSort(w) ==
  /\ wpc[w] = "sort"
  /\ LET t == tasks[wcur[w]]
     IN /\ idx' \in sort_records(idx, t.left, t.right - t.left + 1)
        /\ uninit' = (uninit \/ t.right >= bi)
        /\ DeleteAndReturn(w, t.parent)
  /\ UNCHANGED <<inputVars, gateVars, buildVars, farmFrame,
                 W, tasks, inq, nextw, epc, ein, eparent, enq, reports, uaf>>

\* Worker::svc, case Merge: merge_records, delete t, return parent
WorkerMerge(w) ==
  /\ wpc[w] = "svc"
  /\ tasks[wcur[w]].kind = "Merge"
  /\ LET t == tasks[wcur[w]]
     IN /\ idx' = merge_records(idx, t.left, t.mid, t.right)
        /\ uninit' = (uninit \/ t.right >= bi)
        /\ DeleteAndReturn(w, t.parent)
  /\ UNCHANGED <<inputVars, gateVars, buildVars, farmFrame,
                 W, tasks, inq, nextw, epc, ein, eparent, enq, reports, uaf>>

\* main of ff_mmap.cpp up to farm.run_and_wait_end(): nthreads - 1 workers,
\* the gate reset, the index malloc'ed and not yet written
FarmInit ==
  /\ N \in 1..MaxN /\ cutoff \in 1..MaxCutoff /\ W \in 1..MaxWorkers
  /\ file \in SortFiles(N)
  /\ \E g \in Keys : idx = [p \in 0..(N - 1) |-> Garbage(g)]
  /\ filled = 0 /\ gate_arg = -1 /\ waiters = IdleWaiters
  /\ bi = 0 /\ bpos = 0 /\ bpc = "idle" /\ uninit = FALSE
  /\ oob = FALSE /\ file_sz = FileSize(file) /\ SeqIdle
  /\ tasks = <<>> /\ nextw = 0
  /\ inq = [w \in Workers |-> <<>>] /\ fb = [w \in Workers |-> <<>>]
  /\ epc = "start" /\ ein = NULL /\ eparent = NULL
  /\ wpc = [w \in Workers |-> "idle"] /\ wcur = [w \in Workers |-> NULL]
  /\ enq = <<>> /\ reports = <<>> /\ ran = <<>> /\ freed = <<>> /\ uaf = FALSE
  /\ OmpIdle /\ MpiIdle /\ RwIdle

FarmNext ==
  \/ EmitterSvcInit
  \/ \E w \in Workers : EmitterSvc(w)
  \/ EmitterCheck
  \/ EmitterAllEOS
  \/ \E w \in Workers : WorkerPop(w)
  \/ \E w \in Workers : WorkerBuildScan(w)
  \/ \E w \in Workers : WorkerBuildFinal(w)
  \/ \E w \in Workers : WorkerWait(w)
  \/ \E w \in Workers : WorkerSort(w)
  \/ \E w \in Workers : WorkerMerge(w)

\* farm.run_and_wait_end() has returned
FarmDown == epc = "done" /\ \A w \in Workers : wpc[w] = "done"

SpecFarm == FarmInit /\ [][FarmNext]_vars

\* every thread of the farm that can take a step eventually takes one
FairSpecFarm == SpecFarm /\ WF_vars(FarmNext)

\* the farm on one input per N (keys descending, wrapped into Keys): the gate
\* and the builder's notifications do not depend on the keys
ProgressInit ==
  /\ FarmInit
  /\ \A i \in 1..N : file[i].key = (N - i) % (MaxKey + 1)
  /\ idx[0].key = 0
FairSpecProgress == ProgressInit /\ [][FarmNext]_vars /\ WF_vars(FarmNext)


(************** FastFlow farm with a join counter: fastflow.cpp *************)
\* struct Task of fastflow.cpp; is_sort is kind = "Sort", remain the number of
\* children still running
CTask(kind, l, m, r, parent, remain) ==
  [kind |-> kind, left |-> l, mid |-> m, right |-> r, parent |-> parent,
   remain |-> remain]

\* build_tasks of fastflow.cpp: one node per range, pushed on the arena before
\* its children; the root is the first node
RECURSIVE cbuild_tasks(_, _, _, _, _)
cbuild_tasks(l, r, parent, c, arena) ==
  IF r - l + 1 <= c
    THEN Append(arena, CTask("Sort", l, 0, r, parent, 0))
    ELSE LET mid == (l + r) \div 2
             node == Len(arena) + 1
             a1 == Append(arena, CTask("Merge", l, mid, r, parent, 2))
             a2 == cbuild_tasks(l, mid, node, c, a1)
         IN cbuild_tasks(mid + 1, r, node, c, a2)

root == 1

\* Emitter::svc, first call: push the leaves
CEmitterStart ==
  /\ epc = "start"
  /\ LET initial == IdsOfKind(tasks, "Sort")
     IN /\ inq' = SendAll(inq, nextw, initial)
        /\ nextw' = (nextw + Len(initial)) % W
        /\ enq' = [k \in DOMAIN tasks |-> IF tasks[k].kind = "Sort" THEN 1 ELSE 0]
  /\ epc' = "run"
  /\ UNCHANGED <<inputVars, idx, uninit, gateVars, buildVars, farmFrame,
                 W, tasks, fb, ein, eparent, wpc, wcur, reports, ran, freed, uaf>>

\* Emitter::svc for a pointer returned by worker w: the root pointer ends the
\* stream, any other pointer is a parent whose counter is decremented
CEmitterSvc(w) ==
  /\ epc = "run"
  /\ fb[w] # <<>>
  /\ LET in == Head(fb[w])
         left == tasks[in].remain - 1
     IN /\ fb' = [fb EXCEPT ![w] = Tail(@)]
        /\ reports' = [reports EXCEPT ![in] = @ + 1]
        /\ IF in = root
             THEN /\ inq' = Broadcast(inq)
                  /\ epc' = "done"
                  /\ UNCHANGED <<tasks, nextw, enq>>
             ELSE /\ tasks' = [tasks EXCEPT ![in].remain = left]
                  /\ epc' = "run"
                  /\ IF left = 0
                       THEN /\ inq' = [inq EXCEPT ![nextw] = Append(@, in)]
                            /\ nextw' = (nextw + 1) % W
                            /\ enq' = [enq EXCEPT ![in] = @ + 1]
                       ELSE UNCHANGED <<inq, nextw, enq>>
  /\ UNCHANGED <<inputVars, idx, uninit, gateVars, buildVars, farmFrame,
                 W, ein, eparent, wpc, wcur, ran, freed, uaf>>

\* Worker::svc of fastflow.cpp: sort or merge, then return the root pointer
\* for the root and the parent pointer otherwise; tasks are not deleted here
CWorkerSvc(w) ==
  /\ wpc[w] = "svc"
  /\ LET task == wcur[w]
         t == tasks[task]
     IN /\ IF t.kind = "Sort"
             THEN idx' \in sort_records(idx, t.left, t.right - t.left + 1)
             ELSE idx' = merge_records(idx, t.left, t.mid, t.right)
        /\ ran' = [ran EXCEPT ![task] = @ + 1]
        /\ fb' = [fb EXCEPT ![w] = Append(@, IF task = root THEN task ELSE t.parent)]
  /\ wpc' = [wpc EXCEPT ![w] = "idle"]
  /\ wcur' = [wcur EXCEPT ![w] = NULL]
  /\ UNCHANGED <<inputVars, uninit, gateVars, buildVars, farmFrame,
                 W, tasks, inq, nextw, epc, ein, eparent, enq, reports, freed, uaf>>

\* main after run_and_wait_end: for (Task* t : arena) delete t
CounterCleanup ==
  /\ FarmDown
  /\ \A t \in DOMAIN tasks : freed[t] = 0
  /\ freed' = [t \in DOMAIN tasks |-> 1]
  /\ UNCHANGED <<inputVars, idx, uninit, gateVars, buildVars, farmFrame,
                 W, tasks, inq, fb, nextw, epc, ein, eparent, wpc, wcur,
                 enq, reports, ran, uaf>>

\* main of fastflow.cpp up to farm.run_and_wait_end(): the data in memory, the
\* task graph built, nthreads workers
CounterInit ==
  /\ N \in 1..MaxN /\ cutoff \in 1..MaxCutoff /\ W \in 1..MaxWorkers
  /\ file \in SortFiles(N)
  /\ idx = BuiltIndex(file)
  /\ filled = 0 /\ gate_arg = -1 /\ waiters = IdleWaiters
  /\ bi = N /\ bpos = 0 /\ bpc = "idle" /\ uninit = FALSE
  /\ oob = FALSE /\ file_sz = FileSize(file) /\ SeqIdle
  /\ tasks = cbuild_tasks(0, N - 1, NULL, cutoff, <<>>)
  /\ nextw = 0
  /\ inq = [w \in Workers |-> <<>>] /\ fb = [w \in Workers |-> <<>>]
  /\ epc = "start" /\ ein = NULL /\ eparent = NULL
  /\ wpc = [w \in Workers |-> "idle"] /\ wcur = [w \in Workers |-> NULL]
  /\ enq = Zeros(tasks) /\ reports = Zeros(tasks)
  /\ ran = Zeros(tasks) /\ freed = Zeros(tasks) /\ uaf = FALSE
  /\ OmpIdle /\ MpiIdle /\ RwIdle

CounterNext ==
  \/ CEmitterStart
  \/ \E w \in Workers : CEmitterSvc(w)
  \/ \E w \in Workers : WorkerPop(w)
  \/ \E w \in Workers : CWorkerSvc(w)
  \/ CounterCleanup

SpecCounter == CounterInit /\ [][CounterNext]_vars


(****************** OpenMP task recursion: omp_mmap.cpp *********************)
Threads == 0..(T - 1)

OTask(kind, l, r, parent) ==
  [kind |-> kind, left |-> l, right |-> r, parent |-> parent, st |-> "ready"]

\* t is a descendant task of a (0 is the implicit task of the single thread)
RECURSIVE IsDescendant(_, _)
IsDescendant(t, a) ==
  IF otasks[t].parent = a THEN TRUE
  ELSE IF otasks[t].parent = 0 THEN FALSE
  ELSE IsDescendant(otasks[t].parent, a)

Top(th) == ostack[th][Len(ostack[th])]
Running(th, st) == ostack[th] # <<>> /\ otasks[Top(th)].st = st
ChildrenDoneAlways(a) == TRUE
ChildrenDone(a) == \A c \in DOMAIN otasks : otasks[c].parent = a => otasks[c].st = "done"

\* a task scheduling point of thread th: the implicit barrier after `single`
\* (no task in hand), the taskwait of the single thread, or the taskwait of the
\* task in hand. A tied task may be started there only if it descends from
\* every task the thread has suspended.
MayStart(th, t) ==
  /\ otasks[t].st = "ready"
  /\ IF ostack[th] = <<>>
       THEN th # 0 \/ opc = "taskwait"
       ELSE otasks[Top(th)].st = "taskwait" /\ IsDescendant(t, Top(th))

\* mergesort_task: right - left > cutoff splits, anything else is a leaf
OmpSplits(l, r, c) == r - l > c

Finish(th) ==
  /\ otasks' = [otasks EXCEPT ![Top(th)].st = "done"]
  /\ ostack' = [ostack EXCEPT ![th] = SubSeq(@, 1, Len(@) - 1)]

\* main: the single thread creates the builder task and the sort task and
\* reaches its taskwait
OmpSingle ==
  /\ opc = "single"
  /\ otasks' = <<OTask("build", 0, 0, 0), OTask("sort", 0, N - 1, 0)>>
  /\ opc' = "taskwait"
  /\ UNCHANGED <<inputVars, idx, uninit, gateVars, buildVars, ompFrame, T, ostack>>

\* a thread takes a task from the pool and starts it
OmpStart(th, t) ==
  /\ MayStart(th, t)
  /\ otasks' = [otasks EXCEPT ![t].st = "start"]
  /\ ostack' = [ostack EXCEPT ![th] = Append(@, t)]
  /\ UNCHANGED <<inputVars, idx, uninit, gateVars, buildVars, ompFrame, T, opc>>

\* mergesort_task up to its first suspension: return on left >= right, create
\* the two child tasks and reach taskwait, or reach the leaf's gate wait
OmpSortEnter(th) ==
  /\ Running(th, "start") /\ otasks[Top(th)].kind = "sort"
  /\ LET me == Top(th)
         left == otasks[me].left
         right == otasks[me].right
         mid == (left + right) \div 2
     IN IF left >= right
          THEN Finish(th)
          ELSE IF OmpSplits(left, right, cutoff)
            THEN /\ otasks' = [otasks EXCEPT ![me].st = "taskwait"]
                              \o <<OTask("sort", left, mid, me),
                                   OTask("sort", mid + 1, right, me)>>
                 /\ UNCHANGED ostack
            ELSE /\ otasks' = [otasks EXCEPT ![me].st = "wait"]
                 /\ UNCHANGED ostack
  /\ UNCHANGED <<inputVars, idx, uninit, gateVars, buildVars, ompFrame, T, opc>>

\* leaf: wait_until_filled(right + 1) returns
OmpLeafWait(th) ==
  /\ Running(th, "wait")
  /\ WaitPred(otasks[Top(th)].right + 1)
  /\ otasks' = [otasks EXCEPT ![Top(th)].st = "sort"]
  /\ UNCHANGED <<inputVars, idx, uninit, gateVars, buildVars, ompFrame, T, ostack, opc>>

\* leaf: sort_records(base + left, right - left + 1)
OmpLeafSort(th) ==
  /\ Running(th, "sort")
  /\ LET t == otasks[Top(th)]
     IN /\ idx' \in sort_records(idx, t.left, t.right - t.left + 1)
        /\ uninit' = (uninit \/ t.right >= bi)
  /\ Finish(th)
  /\ UNCHANGED <<inputVars, gateVars, buildVars, ompFrame, T, opc>>

\* taskwait is over: merge_records(base, left, mid, right)
OmpMerge(th) ==
  /\ Running(th, "taskwait") /\ ChildrenDone(Top(th))
  /\ LET t == otasks[Top(th)]
     IN /\ idx' = merge_records(idx, t.left, (t.left + t.right) \div 2, t.right)
        /\ uninit' = (uninit \/ t.right >= bi)
  /\ Finish(th)
  /\ UNCHANGED <<inputVars, gateVars, buildVars, ompFrame, T, opc>>

\* the builder task: one iteration of build_index_mmap_progressive
OmpBuildScan(th) ==
  /\ Running(th, "start") /\ otasks[Top(th)].kind = "build"
  /\ BuildScan
  /\ UNCHANGED <<inputVars, uninit, ompFrame, ompVars>>

\* the builder task: the final notify_filled(n) and the end of the task
OmpBuildFinal(th) ==
  /\ Running(th, "start") /\ otasks[Top(th)].kind = "build"
  /\ BuildFinal
  /\ Finish(th)
  /\ UNCHANGED <<inputVars, uninit, ompFrame, T, opc>>

\* the taskwait of the single thread is over; the parallel region ends once
\* every thread has reached the barrier
OmpRegionEnd ==
  /\ opc = "taskwait"
  /\ otasks # <<>> /\ \A t \in DOMAIN otasks : otasks[t].st = "done"
  /\ opc' = "done"
  /\ UNCHANGED <<inputVars, idx, uninit, gateVars, buildVars, ompFrame, T, otasks, ostack>>

\* main of omp_mmap.cpp up to `#pragma omp parallel`: idx malloc'ed, g_filled = 0
OmpInit ==
  /\ N \in 1..MaxN /\ cutoff \in 1..MaxCutoff /\ T \in 1..MaxWorkers
  /\ file \in SortFiles(N)
  /\ \E g \in Keys : idx = [p \in 0..(N - 1) |-> Garbage(g)]
  /\ filled = 0 /\ gate_arg = -1 /\ waiters = IdleWaiters
  /\ bi = 0 /\ bpos = 0 /\ bpc = "idle" /\ uninit = FALSE
  /\ oob = FALSE /\ file_sz = FileSize(file) /\ SeqIdle
  /\ FarmIdle /\ MpiIdle /\ RwIdle
  /\ otasks = <<>> /\ ostack = [th \in Threads |-> <<>>] /\ opc = "single"

OmpNext ==
  \/ OmpSingle
  \/ \E th \in Threads, t \in DOMAIN otasks : OmpStart(th, t)
  \/ \E th \in Threads : OmpSortEnter(th)
  \/ \E th \in Threads : OmpLeafWait(th)
  \/ \E th \in Threads : OmpLeafSort(th)
  \/ \E th \in Threads : OmpMerge(th)
  \/ \E th \in Threads : OmpBuildScan(th)
  \/ \E th \in Threads : OmpBuildFinal(th)
  \/ OmpRegionEnd

OmpDone == opc = "done"

SpecOmp == OmpInit /\ [][OmpNext]_vars

\* the two task-parallel drivers side by side: a run of ff_mmap.cpp or a run of
\* omp_mmap.cpp
\* (one input per N: the keys do not influence which task runs when)
TasksInit ==
  /\ FarmInit \/ OmpInit
  /\ \A i \in 1..N : file[i].key = (N - i) % (MaxKey + 1)
  /\ idx[0].key = 0
TasksNext == FarmNext \/ OmpNext
SpecTasks == TasksInit /\ [][TasksNext]_vars

\* every thread of the team that can take a step eventually takes one
FairSpecOmp == SpecOmp /\ WF_vars(OmpNext)

(*********************** rewrite_sorted_mmap: utils.hpp *********************)
MaxRw == 4

\* input files of the rewriter: every mix of payload lengths
RwFiles(n) == {f \in Files(n) : \A i \in 1..n : f[i].key = i % (MaxKey + 1)}

\* the indexes that are a permutation of the built index of f
IndexPerms(f) ==
  {[p \in 0..(Len(f) - 1) |-> BuiltIndex(f)[q[p + 1] - 1]] : q \in Perms(Len(f))}

\* rec_size of the copy loop
RecSizeNoHeader(r) == r.len
RecSize(r) == KEY_SZ + LEN_SZ + r.len

\* out_size: the sum over the first n entries of sizeof key + sizeof len + len
RECURSIVE OutSize(_, _)
OutSize(ix, n) ==
  IF n = 0 THEN 0 ELSE OutSize(ix, n - 1) + KEY_SZ + LEN_SZ + ix[n - 1].len

\* memcpy(dst + at, src + from, n) on byte sequences
Memcpy(dst, at, src, from, n) ==
  [b \in DOMAIN dst |->
     IF b > at /\ b <= at + n
       THEN ZeroPadded(src, from + n)[from + (b - at)]
       ELSE dst[b]]

\* steps 1-4: open and map the input, size, create and map the output
RwOpen ==
  /\ rwpc = "open"
  /\ out_map' = [b \in 1..OutSize(idx, N) |-> 0]
  /\ out_off' = 0 /\ ri' = 0 /\ wrote' = <<>>
  /\ rwpc' = "copy"
  /\ UNCHANGED <<inputVars, idx, oob, rwFrame>>

\* any of open, fstat, mmap, ftruncate fails: return false
\* leaving no output file or an empty one (<<>>), or, when only the mapping of
\* the output fails, one of out_size zero bytes
RwOpenFails ==
  /\ rwpc = "open"
  /\ rwpc' = "failed"
  /\ out_map' \in {<<>>, [b \in 1..OutSize(idx, N) |-> 0]}
  /\ UNCHANGED <<inputVars, idx, oob, rwFrame, out_off, ri, wrote>>

\* step 5: one iteration of the copy loop
RwCopy ==
  /\ rwpc = "copy" /\ ri < N
  /\ LET r == idx[ri]
         rec_size == RecSize(r)
         outside == r.offset + rec_size > file_sz
     IN /\ oob' = (oob \/ outside)
        /\ \/ /\ out_map' = Memcpy(out_map, out_off, InputBytes, r.offset, rec_size)
              /\ out_off' = out_off + rec_size
              /\ wrote' = Append(wrote, out_off)
              /\ ri' = ri + 1
              /\ UNCHANGED rwpc
           \/ /\ outside
              /\ rwpc' = "crashed"
              /\ UNCHANGED <<out_map, out_off, wrote, ri>>
  /\ UNCHANGED <<inputVars, idx, rwFrame>>

\* step 6: unmap, close, free(idx), return true
RwClose ==
  /\ rwpc = "copy" /\ ri = N
  /\ rwpc' = "done"
  /\ UNCHANGED <<inputVars, idx, oob, rwFrame, out_map, out_off, ri, wrote>>

RwInit ==
  /\ N \in 1..MaxRw /\ cutoff = 1
  /\ file \in RwFiles(N)
  /\ idx \in IndexPerms(file)
  /\ filled = 0 /\ gate_arg = -1 /\ waiters = IdleWaiters
  /\ bi = 0 /\ bpos = 0 /\ bpc = "idle" /\ uninit = FALSE
  /\ oob = FALSE /\ file_sz = FileSize(file) /\ SeqIdle
  /\ FarmIdle /\ OmpIdle /\ MpiIdle
  /\ out_map = <<>> /\ out_off = 0 /\ ri = 0 /\ rwpc = "open" /\ wrote = <<>>

RwNext == RwOpen \/ RwOpenFails \/ RwCopy \/ RwClose

SpecRewriter == RwInit /\ [][RwNext]_vars

(************* sequential path of main (ff_mmap.cpp, nthreads <= 1) *********)
\* input files whose last record lost its tail: nothing, one payload byte, or
\* the payload and one byte of the header
Truncations(f) == IF f = <<>> THEN {0} ELSE {0, 1, f[Len(f)].len + 1}

\* parse_argv: -n must be > 0, otherwise an error message and std::exit(1)
ParseArgv ==
  /\ mpc = "parse"
  /\ mpc' = IF N <= 0 THEN "exit1" ELSE "build"
  /\ UNCHANGED <<inputVars, idx, buildVars, seqFrame, rwVars, cpos, ci, prev_key, cres, unlink_res>>

\* check_if_sorted_mmap returned true / returned false
CheckPassed == cres = "sorted"
\* the unlink of the output is reached only past the loop, on the way to
\* `return true`; its failure is reported with perror and changes nothing else
UnlinksAlways(result) == TRUE
Unlinks(result) == result = "sorted"
UnlinkAfter(result) ==
  IF Unlinks(result) THEN unlink_res' \in {"ok", "failed"} ELSE unlink_res' = unlink_res
CheckFailed == cres \in {"eof", "order", "ioerr"}

\* build_index_mmap(path, n), the allocating overload: no gate, notify_every 0
IxScan ==
  /\ mpc = "build"
  /\ ScanRecord
  /\ UNCHANGED <<inputVars, seqFrame, rwVars, seqVars>>

\* a record header outside the mapping made the process die
IxCrash ==
  /\ mpc = "build" /\ bpc = "crashed"
  /\ mpc' = "killed"
  /\ UNCHANGED <<inputVars, idx, buildVars, seqFrame, rwVars, cpos, ci, prev_key, cres, unlink_res>>

\* open, fstat or mmap of the input fails: perror and std::exit(1)
IxOpenFails ==
  /\ mpc = "build" /\ bpc = "idle" /\ bi = 0
  /\ mpc' = "exit1"
  /\ UNCHANGED <<inputVars, idx, buildVars, seqFrame, rwVars, cpos, ci, prev_key, cres, unlink_res>>

\* the loop is over: munmap, close, return idx
IxReturn ==
  /\ mpc = "build" /\ bpc = "idle" /\ bi = N
  /\ bpc' = "done"
  /\ mpc' = "sort"
  /\ UNCHANGED <<inputVars, idx, bi, bpos, oob, seqFrame, rwVars, cpos, ci, prev_key, cres, unlink_res>>

\* sort_records(idx, n), then the call of rewrite_sorted_mmap
SeqSort ==
  /\ mpc = "sort"
  /\ idx' \in sort_records(idx, 0, N)
  /\ mpc' = "rewrite"
  /\ rwpc' = "open"
  /\ UNCHANGED <<inputVars, buildVars, seqFrame, out_map, out_off, ri, wrote,
                 cpos, ci, prev_key, cres, unlink_res>>

\* the copy loop read outside the input mapping and the process died
SeqRewriteCrash ==
  /\ mpc = "rewrite" /\ rwpc = "crashed"
  /\ mpc' = "killed"
  /\ UNCHANGED <<inputVars, idx, buildVars, seqFrame, rwVars, cpos, ci, prev_key, cres, unlink_res>>

\* main discards the result of rewrite_sorted_mmap and calls
\* check_if_sorted_mmap, which opens, sizes and maps the output; with no
\* output file or an empty one it returns false
CheckOpen ==
  /\ mpc = "rewrite" /\ rwpc \in {"done", "failed"}
  /\ mpc' = "check"
  /\ cpos' = 0 /\ ci' = 0 /\ prev_key' = 0
  /\ cres' = IF out_map = <<>> THEN "ioerr" ELSE "run"
  /\ UnlinkAfter(cres')
  /\ UNCHANGED <<inputVars, idx, buildVars, seqFrame, rwVars>>

\* open, fstat or mmap of an existing output fails: return false
CheckOpenFails ==
  /\ mpc = "rewrite" /\ rwpc \in {"done", "failed"}
  /\ mpc' = "check"
  /\ cpos' = 0 /\ ci' = 0 /\ prev_key' = 0
  /\ cres' = "ioerr"
  /\ UnlinkAfter(cres')
  /\ UNCHANGED <<inputVars, idx, buildVars, seqFrame, rwVars>>

\* the test against prev_key of one iteration
OutOfOrder(i, key, prev) == i > 0 /\ key < prev

\* one iteration of the loop of check_if_sorted_mmap
CheckStep ==
  /\ mpc = "check" /\ cres = "run" /\ ci < N
  /\ IF cpos + KEY_SZ + LEN_SZ > Len(out_map)
       THEN cres' = "eof" /\ UNCHANGED <<cpos, ci, prev_key>>
       ELSE LET key == ReadKey(out_map, cpos)
                len == ReadLen(out_map, cpos)
            IN IF OutOfOrder(ci, key, prev_key)
                 THEN cres' = "order" /\ UNCHANGED <<cpos, ci, prev_key>>
                 ELSE /\ prev_key' = key
                      /\ cpos' = cpos + KEY_SZ + LEN_SZ + len
                      /\ ci' = ci + 1
                      /\ UNCHANGED cres
  /\ UnlinkAfter(cres')
  /\ UNCHANGED <<inputVars, idx, buildVars, seqFrame, rwVars, mpc>>

\* after the loop: "File is sorted.", unlink, return true
CheckReturn ==
  /\ mpc = "check" /\ cres = "run" /\ ci = N
  /\ cres' = "sorted"
  /\ UnlinkAfter(cres')
  /\ UNCHANGED <<inputVars, idx, buildVars, seqFrame, rwVars, mpc, cpos, ci, prev_key>>

\* main discards the result of check_if_sorted_mmap: return 0
MainReturn ==
  /\ mpc = "check" /\ cres # "run"
  /\ mpc' = "exit0"
  /\ UNCHANGED <<inputVars, idx, buildVars, seqFrame, rwVars, cpos, ci, prev_key, cres, unlink_res>>

SeqInit ==
  /\ N \in 0..MaxN /\ cutoff = 1
  /\ file \in SortFiles(N)
  /\ \E t \in Truncations(file) : file_sz = FileSize(file) - t
  /\ \E g \in Keys : idx = [p \in 0..(N - 1) |-> Garbage(g)]
  /\ filled = 0 /\ gate_arg = -1 /\ waiters = IdleWaiters
  /\ bi = 0 /\ bpos = 0 /\ bpc = "idle" /\ uninit = FALSE /\ oob = FALSE
  /\ FarmIdle /\ OmpIdle /\ MpiIdle /\ RwIdle
  /\ mpc = "parse" /\ cpos = 0 /\ ci = 0 /\ prev_key = 0 /\ cres = "none"
  /\ unlink_res = "none"

SeqNext ==
  \/ ParseArgv
  \/ IxScan
  \/ IxCrash
  \/ IxOpenFails
  \/ IxReturn
  \/ SeqSort
  \/ RwOpen
  \/ RwOpenFails
  \/ RwCopy
  \/ RwClose
  \/ SeqRewriteCrash
  \/ CheckOpen
  \/ CheckOpenFails
  \/ CheckStep
  \/ CheckReturn
  \/ MainReturn

SpecSeq == SeqInit /\ [][SeqNext]_vars

(************ phases 4 and 5 of main (omp_mmap.cpp, ff_mmap.cpp) ************)
\* what check_if_sorted_mmap may find at the output path: up to n complete
\* records with keys in any order, possibly short of the last payload byte
OutFiles(n) ==
  {SubSeq(FileBytesUpTo(g, Len(g)), 1, Max(0, FileSize(g) - t)) :
     g \in UNION {Files(m) : m \in 0..n}, t \in 0..1}

\* rewrite_sorted_mmap has returned; main goes on to the verification
VerifyInit ==
  /\ N \in 1..MaxN /\ cutoff = 1
  /\ file \in RwFiles(N) /\ \A i \in 1..N : file[i].len = MinPayload
  /\ idx = BuiltIndex(file)
  /\ filled = 0 /\ gate_arg = -1 /\ waiters = IdleWaiters
  /\ bi = N /\ bpos = 0 /\ bpc = "idle" /\ uninit = FALSE
  /\ oob = FALSE /\ file_sz = FileSize(file)
  /\ FarmIdle /\ OmpIdle /\ MpiIdle
  /\ out_map \in OutFiles(N)
  /\ out_off = 0 /\ ri = 0 /\ wrote = <<>> /\ rwpc \in {"done", "failed"}
  /\ mpc = "rewrite" /\ cpos = 0 /\ ci = 0 /\ prev_key = 0 /\ cres = "none"
  /\ unlink_res = "none"

VerifyNext ==
  \/ CheckOpen
  \/ CheckOpenFails
  \/ CheckStep
  \/ CheckReturn
  \/ MainReturn

SpecVerify == VerifyInit /\ [][VerifyNext]_vars

(************ the overlapped drivers up to the end of the rewrite ************)
\* main of ff_mmap.cpp after farm.run_and_wait_end(), main of omp_mmap.cpp after
\* the parallel region: the call of rewrite_sorted_mmap
MainRewrite ==
  /\ FarmDown \/ OmpDone
  /\ rwpc = "off"
  /\ rwpc' = "open"
  /\ UNCHANGED <<inputVars, idx, uninit, gateVars, buildVars, farmVars, ompVars,
                 mpiVars, seqVars, out_map, out_off, ri, wrote>>

PipelineNext ==
  \/ FarmNext
  \/ OmpNext
  \/ MainRewrite
  \/ RwOpen
  \/ RwOpenFails
  \/ RwCopy
  \/ RwClose

SpecPipeline == TasksInit /\ [][PipelineNext]_vars

(******************* distributed driver: mpi_omp_mmap.cpp *******************)
MaxP == 4
TAG_FULL_SLICE == 650
TAG_MERGE == 700

Ranks == 0..(P - 1)

RECURSIVE Pow2(_)
Pow2(k) == IF k = 0 THEN 1 ELSE 2 * Pow2(k - 1)

\* a vector as the array its data() points to, and back
AsArray(s) == [p \in 0..(Len(s) - 1) |-> s[p + 1]]
AsSeq(a) == Slice(a, 0, Cardinality(DOMAIN a) - 1)

\* vector::resize from empty (value-initialised entries) and MPI_Recv into it
ZeroRec == IndexRec(0, 0, 0)
Resized(n) == [k \in 1..n |-> ZeroRec]
Received(buf, data) == [k \in 1..Len(buf) |-> IF k <= Len(data) THEN data[k] ELSE buf[k]]

\* root_build_and_send_full_slices: the range of record numbers of rank r
start_idx(r, total_records, world_size) == (total_records * r) \div world_size
end_idx(r, total_records, world_size) == (total_records * (r + 1)) \div world_size

count_ceil(rank, total_records, world_size) ==
  (total_records + world_size - 1) \div world_size
count_for_rank(rank, total_records, world_size) ==
  (total_records * (rank + 1)) \div world_size - (total_records * rank) \div world_size

RECURSIVE SumCounts(_, _, _, _)
SumCounts(base, k, total_records, world_size) ==
  IF k = 0 THEN 0
  ELSE SumCounts(base, k - 1, total_records, world_size)
         + count_for_rank(base + k - 1, total_records, world_size)

partner_subtree_size(partner_rank, round, total_records, world_size) ==
  LET group == Pow2(round)
      base == (partner_rank \div group) * group
  IN SumCounts(base, group, total_records, world_size)

\* world_rank ^ (1 << round)
PartnerUp(rank, round) == rank + Pow2(round)
PartnerOf(rank, round) ==
  IF (rank \div Pow2(round)) % 2 = 0 THEN rank + Pow2(round) ELSE rank - Pow2(round)

IReceive(rank, round) ==
  rank % Pow2(round + 1) = 0 /\ rank < PartnerOf(rank, round)

\* mergesort_task of mpi_omp_mmap.cpp (no gate): the arrays it may leave
RECURSIVE mergesort_task(_, _, _, _)
mergesort_task(base, left, right, c) ==
  IF left >= right THEN {base}
  ELSE IF right - left > c
    THEN LET mid == (left + right) \div 2
             lefts == mergesort_task(base, left, mid, c)
             both == UNION {mergesort_task(b, mid + 1, right, c) : b \in lefts}
         IN {merge_records(b, left, mid, right) : b \in both}
    ELSE sort_records(base, left, right - left + 1)

Msg(src, dst, tag, data) == [src |-> src, dst |-> dst, tag |-> tag, data |-> data]

\* root_build_and_send_full_slices: one iteration of the scan; the slice of a
\* non-root rank is posted as soon as it is complete
MpiRootScan ==
  /\ rpc[0] = "scan" /\ bi < N
  /\ LET current_rank == CHOOSE r \in Ranks :
                           start_idx(r, N, P) <= bi /\ bi < end_idx(r, N, P)
         key == ReadKey(InputBytes, bpos)
         len == ReadLen(InputBytes, bpos)
         filled_slices == [per_rank EXCEPT ![current_rank] = Append(@, IndexRec(key, bpos, len))]
     IN /\ per_rank' = filled_slices
        /\ net' = IF bi + 1 = end_idx(current_rank, N, P) /\ current_rank # 0
                    THEN net \cup {Msg(0, current_rank, TAG_FULL_SLICE,
                                       filled_slices[current_rank])}
                    ELSE net
        /\ send_req' = IF bi + 1 = end_idx(current_rank, N, P) /\ current_rank # 0
                         THEN [send_req EXCEPT ![current_rank] = "posted"]
                         ELSE send_req
        /\ bpos' = bpos + KEY_SZ + LEN_SZ + len
  /\ bi' = bi + 1
  /\ UNCHANGED <<inputVars, P, local, rpc, rround, mpiFrame>>

\* step 6: the loop of MPI_Wait over the requests that are not null
WaitNone(req) == req
WaitAll(req) == [r \in DOMAIN req |-> "null"]

\* steps 5 to 7: root keeps its own slice (out_local_slice.swap(per_rank[0])),
\* waits for the sends, unmaps the input and returns; the vectors of per_rank
\* end with the function
MpiRootKeep ==
  /\ rpc[0] = "scan" /\ bi = N
  /\ local' = [local EXCEPT ![0] = per_rank[0]]
  /\ send_req' = WaitAll(send_req)
  /\ per_rank' = [r \in Ranks |-> <<>>]
  /\ rpc' = [rpc EXCEPT ![0] = "sort"]
  /\ UNCHANGED <<inputVars, buildVars, P, rround, net, mpiFrame>>

\* nonroot_recv_full_slice
MpiRecvSlice(r) ==
  /\ r # 0 /\ rpc[r] = "recv"
  /\ \E m \in net :
       /\ m.src = 0 /\ m.dst = r /\ m.tag = TAG_FULL_SLICE
       /\ local' = [local EXCEPT ![r] = Received(Resized(count_for_rank(r, N, P)), m.data)]
       /\ net' = net \ {m}
  /\ rpc' = [rpc EXCEPT ![r] = "sort"]
  /\ UNCHANGED <<inputVars, buildVars, P, rround, per_rank, send_req, mpiFrame>>

\* phase 3: the local sort
MpiLocalSort(r) ==
  /\ rpc[r] = "sort"
  /\ \E a \in mergesort_task(AsArray(local[r]), 0,
                             IF local[r] = <<>> THEN 0 ELSE Len(local[r]) - 1, cutoff) :
       local' = [local EXCEPT ![r] = AsSeq(a)]
  /\ rpc' = [rpc EXCEPT ![r] = "tree"]
  /\ UNCHANGED <<inputVars, buildVars, P, rround, net, per_rank, send_req, mpiFrame>>

\* pairwise_merge_tree: the loop test and one iteration
MpiTreeStep(r) ==
  /\ rpc[r] = "tree"
  /\ LET round == rround[r]
         partner == PartnerOf(r, round)
         expected == partner_subtree_size(partner, round, N, P)
     IN IF Pow2(round) >= P
          THEN /\ rpc' = [rpc EXCEPT ![r] = "done"]
               /\ UNCHANGED <<local, rround, net>>
        ELSE IF partner >= P
          THEN /\ rround' = [rround EXCEPT ![r] = round + 1]
               /\ UNCHANGED <<local, rpc, net>>
        ELSE IF IReceive(r, round)
          THEN IF expected = 0
                 THEN /\ rround' = [rround EXCEPT ![r] = round + 1]
                      /\ UNCHANGED <<local, rpc, net>>
                 ELSE \E m \in net :
                        /\ m.src = partner /\ m.dst = r /\ m.tag = TAG_MERGE + round
                        /\ LET partner_buf == Received(Resized(expected), m.data)
                               mine_n == Len(local[r])
                               concat == local[r] \o partner_buf
                           IN local' = [local EXCEPT ![r] =
                                IF mine_n = 0 THEN partner_buf
                                ELSE AsSeq(merge_records(AsArray(concat), 0, mine_n - 1,
                                                         Len(concat) - 1))]
                        /\ net' = net \ {m}
                        /\ rround' = [rround EXCEPT ![r] = round + 1]
                        /\ UNCHANGED rpc
          ELSE /\ net' = IF Len(local[r]) > 0
                           THEN net \cup {Msg(r, partner, TAG_MERGE + round, local[r])}
                           ELSE net
               /\ local' = [local EXCEPT ![r] = <<>>]
               /\ rpc' = [rpc EXCEPT ![r] = "done"]
               /\ UNCHANGED rround
  /\ UNCHANGED <<inputVars, buildVars, P, per_rank, send_req, mpiFrame>>

MpiInit ==
  /\ N \in 1..MaxN /\ cutoff \in 1..MaxCutoff /\ P \in 1..MaxP
  /\ file \in SortFiles(N)
  /\ idx = <<>>
  /\ filled = 0 /\ gate_arg = -1 /\ waiters = IdleWaiters
  /\ bi = 0 /\ bpos = 0 /\ bpc = "idle" /\ uninit = FALSE
  /\ oob = FALSE /\ file_sz = FileSize(file) /\ SeqIdle
  /\ FarmIdle /\ OmpIdle /\ RwIdle
  /\ local = [r \in Ranks |-> <<>>]
  /\ rpc = [r \in Ranks |-> IF r = 0 THEN "scan" ELSE "recv"]
  /\ rround = [r \in Ranks |-> 0]
  /\ net = {}
  /\ per_rank = [r \in Ranks |-> <<>>]
  /\ send_req = [r \in Ranks |-> "null"]

MpiNext ==
  \/ MpiRootScan
  \/ MpiRootKeep
  \/ \E r \in Ranks : MpiRecvSlice(r)
  \/ \E r \in Ranks : MpiLocalSort(r)
  \/ \E r \in Ranks : MpiTreeStep(r)

SpecMpi == MpiInit /\ [][MpiNext]_vars

\* the same driver on one input per N (keys descending, wrapped into Keys):
\* what rank 0 scans and sends where does not depend on the keys
ScatterInit ==
  /\ MpiInit
  /\ \A i \in 1..N : file[i].key = (N - i) % (MaxKey + 1)
SpecScatter == ScatterInit /\ [][MpiNext]_vars

\* every rank is a process of its own: a rank that can take a step takes one
FairSpecMpi == SpecMpi /\ WF_vars(MpiNext)

\* the same driver on more ranks than records per block: one input of WideN
\* records with equal keys on WideP ranks
WideP == 7
WideN == 7

MpiWideInit ==
  /\ N = WideN /\ cutoff = 1 /\ P = WideP
  /\ file = [i \in 1..WideN |-> [key |-> MaxKey, len |-> MinPayload + (i % 2)]]
  /\ idx = <<>>
  /\ filled = 0 /\ gate_arg = -1 /\ waiters = IdleWaiters
  /\ bi = 0 /\ bpos = 0 /\ bpc = "idle" /\ uninit = FALSE
  /\ oob = FALSE /\ file_sz = FileSize(file) /\ SeqIdle
  /\ FarmIdle /\ OmpIdle /\ RwIdle
  /\ local = [r \in Ranks |-> <<>>]
  /\ rpc = [r \in Ranks |-> IF r = 0 THEN "scan" ELSE "recv"]
  /\ rround = [r \in Ranks |-> 0]
  /\ net = {}
  /\ per_rank = [r \in Ranks |-> <<>>]
  /\ send_req = [r \in Ranks |-> "null"]

SpecMpiWide == MpiWideInit /\ [][MpiNext]_vars

(************************* stand-alone gate *********************************)
\* stand-alone gate: a thread calls wait_until(need)
WaitCall(w, need) ==
  /\ waiters[w].st = "idle"
  /\ waiters' = [waiters EXCEPT ![w] = [need |-> need, st |-> "blocked"]]
  /\ UNCHANGED <<filled, gate_arg, gateFrame>>

\* stand-alone gate: cv.wait returns once its predicate holds
WaitReturn(w) ==
  /\ waiters[w].st = "blocked"
  /\ WaitPred(waiters[w].need)
  /\ waiters' = [waiters EXCEPT ![w].st = "returned"]
  /\ UNCHANGED <<filled, gate_arg, gateFrame>>

\* stand-alone gate: the caller goes on and may wait again
WaitLeave(w) ==
  /\ waiters[w].st = "returned"
  /\ waiters' = [waiters EXCEPT ![w] = [need |-> 0, st |-> "idle"]]
  /\ UNCHANGED <<filled, gate_arg, gateFrame>>

\* stand-alone gate: some thread calls notify(m)
NotifyCall(m) ==
  /\ GateNotify(m)
  /\ UNCHANGED <<waiters, gateFrame>>

GateInit ==
  /\ N = MaxN /\ cutoff = 1 /\ file = <<>>
  /\ idx = <<>>
  /\ filled = 0 /\ gate_arg = -1
  /\ waiters = IdleWaiters
  /\ bi = 0 /\ bpos = 0 /\ bpc = "idle" /\ uninit = FALSE
  /\ oob = FALSE /\ file_sz = FileSize(file) /\ SeqIdle
  /\ FarmIdle /\ OmpIdle /\ MpiIdle /\ RwIdle

GateNext ==
  \/ \E m \in 0..MaxN : NotifyCall(m)
  \/ \E w \in 1..NumWaiters, need \in 0..MaxN : WaitCall(w, need)
  \/ \E w \in 1..NumWaiters : WaitReturn(w)
  \/ \E w \in 1..NumWaiters : WaitLeave(w)

SpecGate == GateInit /\ [][GateNext]_vars

(***************************************************************************)
(*                              properties                                  *)
(***************************************************************************)
Range(a) == {a[p] : p \in DOMAIN a}
Count(a, e) == Cardinality({p \in DOMAIN a : a[p] = e})
\* a holds the entries of b, each as often as b does
IsPermOf(a, b) ==
  /\ DOMAIN a = DOMAIN b
  /\ \A e \in Range(a) \cup Range(b) : Count(a, e) = Count(b, e)
IsSortedIndex(a) == \A p, q \in DOMAIN a : p < q => a[p].key <= a[q].key
\* offset points to a header of the input with this key and this len
EntryIntact(e) ==
  /\ e.offset + KEY_SZ + LEN_SZ + e.len <= Len(InputBytes)
  /\ ReadKey(InputBytes, e.offset) = e.key
  /\ ReadLen(InputBytes, e.offset) = e.len

MergeTasks == {t \in DOMAIN tasks : tasks[t].kind = "Merge"}
Children(t) == {c \in DOMAIN tasks : tasks[c].parent = t /\ tasks[c].kind # "BuildIndex"}

\* C1: when the farm of ff_mmap.cpp has shut down, the index is sorted
\* ascending by key and is a permutation of the entries the builder wrote,
\* every {key, offset, len} intact
C1_FarmSorted ==
  FarmDown =>
    /\ IsSortedIndex(idx)
    /\ IsPermOf(idx, BuiltIndex(file))
    /\ \A p \in DOMAIN idx : EntryIntact(idx[p])
C1_Witness ==
  /\ FarmDown /\ N > cutoff /\ W >= 2
  /\ ~IsSortedIndex(BuiltIndex(file))
  /\ IsSortedIndex(idx)

\* C2: when the top-level mergesort_task and the parallel region of
\* omp_mmap.cpp have completed, the index is sorted ascending by key and is a
\* permutation of the entries the builder produced
C2_OmpSorted ==
  OmpDone => IsSortedIndex(idx) /\ IsPermOf(idx, BuiltIndex(file))

\* C3: when rank 0 leaves pairwise_merge_tree it holds exactly N entries, a
\* permutation of the built index, sorted by key, for every world size
C3_RootHoldsAll ==
  rpc[0] = "done" =>
    /\ Len(local[0]) = N
    /\ IsPermOf(AsArray(local[0]), BuiltIndex(file))
    /\ IsSortedIndex(AsArray(local[0]))

\* the bytes of the input record an index entry points at
RecNo(e) == CHOOSE i \in 1..Len(file) : OffsetOf(file, i - 1) = e.offset
RECURSIVE ExpectedOut(_)
ExpectedOut(k) ==
  IF k = 0 THEN <<>> ELSE ExpectedOut(k - 1) \o RecordBytes(file, RecNo(idx[k - 1]))
RECURSIVE SizeSum(_)
SizeSum(k) == IF k = 0 THEN 0 ELSE SizeSum(k - 1) + KEY_SZ + LEN_SZ + idx[k - 1].len

\* C4: the output is the concatenation, in index order, of the header and
\* payload bytes of each entry's input record; entry k is written at the
\* cursor that is the sum of the sizes before it; the file size is the sum of
\* all sizes; at the end every entry has been written once
C4_RewriterConcat ==
  rwpc \in {"copy", "done"} =>
    /\ Len(out_map) = SizeSum(N)
    /\ out_off = SizeSum(ri)
    /\ SubSeq(out_map, 1, out_off) = ExpectedOut(ri)
    /\ Len(wrote) = ri
    /\ \A k \in 1..Len(wrote) : wrote[k] = SizeSum(k - 1)
    /\ rwpc = "done" => ri = N /\ out_off = Len(out_map) /\ out_map = ExpectedOut(N)

\* a completed rewrite of three or more records of unequal sizes in an order
\* that is not the input's
C4_Witness ==
  /\ rwpc = "done" /\ N >= 3
  /\ idx # BuiltIndex(file)
  /\ \E p, q \in DOMAIN idx : idx[p].len # idx[q].len
  /\ out_map = ExpectedOut(N)

\* C5: every Merge task is passed to the workers exactly once, in the emitter
\* step that takes the second completion message of its children, never before
\* both children have run, and its join counter never goes below zero
C5_MergeEnqueuedOnce ==
  \A t \in MergeTasks :
    /\ enq[t] <= 1
    /\ enq[t] = 1 => \A c \in Children(t) : ran[c] >= 1
    /\ "remain" \in DOMAIN tasks[t] => tasks[t].remain >= 0
    /\ FarmDown => enq[t] = 1

\* C6: every task is deleted at most once and only with its work executed,
\* no field of a deleted task is read, and at shutdown every task has been
\* deleted exactly once
C6_FreedOnce ==
  /\ ~uaf
  /\ \A t \in DOMAIN tasks : freed[t] <= 1 /\ freed[t] <= ran[t]
  /\ FarmDown => \A t \in DOMAIN tasks : freed[t] = 1
C6_Witness ==
  /\ FarmDown /\ MergeTasks # {}
  /\ \A t \in DOMAIN tasks : freed[t] = 1

\* C7: the farm eventually shuts down, for every N, cutoff and number of workers
C7_FarmTerminates == <>FarmDown

\* C8: in the overlapped recursive driver every leaf's gate wait returns and
\* the overlapped sort terminates, for every pool size and every pick order
C8_OmpTerminates == <>OmpDone

\* C11: during one sort of the farm the values of filled never decrease and
\* stay within 0..N; a scan step notifies i + 1 exactly when i + 1 is a
\* multiple of notify_every; the builder's last step notifies N; filled
\* eventually equals N
C11_BuilderStep ==
  /\ filled' >= filled /\ filled' <= N
  /\ bi' # bi =>
       IF (bi + 1) % cutoff = 0
         THEN filled' = bi + 1 /\ gate_arg' = bi + 1
         ELSE UNCHANGED <<filled, gate_arg>>
  /\ bpc' # bpc => filled' = N /\ gate_arg' = N
  /\ (bi' = bi /\ bpc' = bpc) => UNCHANGED <<filled, gate_arg>>
C11_ProgressMonotone ==
  /\ filled = 0
  /\ [][C11_BuilderStep]_vars
  /\ <>[](filled = N)
C11_Witness ==
  /\ bpc = "done" /\ filled = N /\ N = 3 /\ cutoff = 2
  /\ \E w \in Workers : wpc[w] = "sort"

\* C12: every merge-tree message in flight carries exactly as many entries as
\* its receiver computes for the sender's subtree in that round
C12_SizesAgree ==
  \A m \in net :
    m.tag >= TAG_MERGE =>
      Len(m.data) = partner_subtree_size(m.src, m.tag - TAG_MERGE, N, P)

\* C13: every non-root rank eventually completes the receive of its slice
C13_ScatterCompletes == <>(\A r \in Ranks : rpc[r] # "recv")

\* C14: every rank that enters pairwise_merge_tree eventually leaves it, within
\* ceil(log2 P) rounds, and a rank other than 0 then holds an empty index
C14_TreeTerminates ==
  /\ [](\A r \in Ranks : rpc[r] = "done" =>
         /\ Pow2(rround[r]) < 2 * P
         /\ r # 0 => local[r] = <<>>)
  /\ \A r \in 0..(MaxP - 1) :
       (r \in Ranks /\ rpc[r] = "tree") ~> (r \in Ranks /\ rpc[r] = "done")

\* C15: the ranges [start(r), end(r)) of the ranks 0..P-1 are contiguous and
\* cover [0, N); count(r) = end(r) - start(r) is non-negative and the counts
\* sum to N; the slice root builds and posts for rank r has the count(r)
\* entries of the records start(r)..end(r)-1, the count rank r computes itself
C15_SliceCounts ==
  /\ start_idx(0, N, P) = 0 /\ end_idx(P - 1, N, P) = N
  /\ \A r \in Ranks :
       /\ count_for_rank(r, N, P) >= 0
       /\ count_for_rank(r, N, P) = end_idx(r, N, P) - start_idx(r, N, P)
       /\ r < P - 1 => end_idx(r, N, P) = start_idx(r + 1, N, P)
       /\ Len(per_rank[r]) <= count_for_rank(r, N, P)
  /\ SumCounts(0, P, N, P) = N
  /\ \A m \in net :
       m.tag = TAG_FULL_SLICE =>
         /\ Len(m.data) = count_for_rank(m.dst, N, P)
         /\ \A k \in 1..Len(m.data) :
              m.data[k] = BuiltIndex(file)[start_idx(m.dst, N, P) + k - 1]
  /\ (rpc[0] = "scan" /\ bi = N) =>
       \A r \in Ranks : Len(per_rank[r]) = count_for_rank(r, N, P)
C15_Witness ==
  /\ P = 3 /\ N = 2 /\ rpc[0] = "scan" /\ bi = N
  /\ \E m \in net : m.tag = TAG_FULL_SLICE /\ m.dst = 2 /\ Len(m.data) = 1

\* C16: on a well-formed input of N records build_index_mmap fills exactly
\* the entries 0..N-1, entry i with the key and length of record i and the
\* offset that is the sum of 12 + len over the records before it; entries not
\* yet reached are untouched, no read leaves the mapping, the input is
\* unchanged, and on return pos equals the file size
C16_IndexBuilt ==
  (file_sz = FileSize(file) /\ mpc \in {"build", "sort"}) =>
    /\ bi <= N /\ ~oob /\ bpc # "crashed"
    /\ bpos = OffsetOf(file, bi)
    /\ DOMAIN idx = 0..(N - 1)
    /\ \A p \in 0..(bi - 1) :
         idx[p] = IndexRec(file[p + 1].key, OffsetOf(file, p), file[p + 1].len)
    /\ \A p \in bi..(N - 1) : \E g \in Keys : idx[p] = Garbage(g)
    /\ InputBytes = FileBytesUpTo(file, N)
    /\ mpc = "sort" => bi = N /\ bpc = "done" /\ bpos = file_sz
C16_Witness ==
  /\ mpc = "sort" /\ N = 3 /\ file_sz = FileSize(file)
  /\ idx = BuiltIndex(file) /\ idx[2].offset = 41

\* C17: on an input that ends before N records are complete (inside a header
\* or inside a payload) index construction fails: no read leaves the mapping,
\* no index is returned and no later phase of the driver runs
C17_FormatViolationFatal ==
  file_sz < FileSize(file) =>
    /\ ~oob
    /\ bpc # "done"
    /\ mpc \notin {"sort", "rewrite", "check", "exit0"}

\* what rank r holds when it enters round `round` of the merge tree, computed
\* from N, P and the input alone: its sorted slice merged with the buffers it
\* receives from its partners of the earlier rounds
KeysOf(s) == [k \in 1..Len(s) |-> s[k].key]
RefSlice(r) ==
  [k \in 1..count_for_rank(r, N, P) |-> BuiltIndex(file)[start_idx(r, N, P) + k - 1]]
RefSorted(r) == CHOOSE t \in SortOutcomes(RefSlice(r)) : TRUE
RECURSIVE RefHeld(_, _)
RefHeld(r, round) ==
  IF round = 0 THEN RefSorted(r)
  ELSE LET mine == RefHeld(r, round - 1)
           partner == r + Pow2(round - 1)
           expected == partner_subtree_size(partner, round - 1, N, P)
       IN IF partner >= P \/ expected = 0 THEN mine
          ELSE LET partner_buf == Received(Resized(expected), RefHeld(partner, round - 1))
               IN IF mine = <<>> THEN partner_buf ELSE MergeSeq(mine, partner_buf)
Rounds == CHOOSE k \in 0..MaxP : Pow2(k) >= P /\ (k = 0 \/ Pow2(k - 1) < P)

\* C18: for fixed N, P and input, what rank 0 holds after the merge tree does
\* not depend on the run: its key sequence is the one determined by N, P and
\* the input, and its entries are the same up to the order of equal keys
C18_RootDeterministic ==
  rpc[0] = "done" =>
    /\ KeysOf(local[0]) = KeysOf(RefHeld(0, Rounds))
    /\ IsPermOf(AsArray(local[0]), AsArray(RefHeld(0, Rounds)))
C18_Witness ==
  /\ rpc[0] = "done" /\ P = 2 /\ N = 3
  /\ \E k \in 1..2 : /\ local[0][k].key = local[0][k + 1].key
                     /\ local[0][k].offset > local[0][k + 1].offset

\* the output file as check_if_sorted_mmap parses it: the position of record i
\* and whether its header lies inside the file
RECURSIVE OutPos(_)
OutPos(i) ==
  IF i = 0 THEN 0
  ELSE OutPos(i - 1) + KEY_SZ + LEN_SZ + ReadLen(out_map, OutPos(i - 1))
RECURSIVE HeadersParse(_)
HeadersParse(n) ==
  n = 0 \/ (HeadersParse(n - 1) /\ OutPos(n - 1) + KEY_SZ + LEN_SZ <= Len(out_map))
OutKey(i) == ReadKey(out_map, OutPos(i))
Disorder(i) == i > 0 /\ OutKey(i) < OutKey(i - 1)

\* C19: the scan reports the first position whose key is below the key before
\* it; once the scan has failed (out of order, unexpected end of file, or the
\* file cannot be read) the driver does not finish successfully; and the scan
\* succeeds exactly when all N records parse and every adjacent pair is ordered
C19_VerificationAborts ==
  /\ cres = "order" =>
       /\ HeadersParse(ci + 1) /\ Disorder(ci)
       /\ \A j \in 0..(ci - 1) : ~Disorder(j)
  /\ CheckFailed => mpc # "exit0"
  /\ cres \in {"sorted", "eof", "order"} =>
       (cres = "sorted" <=>
          /\ HeadersParse(N) /\ OutPos(N) <= Len(out_map)
          /\ \A j \in 0..(N - 1) : ~Disorder(j))
\* the scan alone: it tests headers only and says nothing of the driver
ScanIsFaithful ==
  /\ cres = "order" =>
       /\ HeadersParse(ci + 1) /\ Disorder(ci)
       /\ \A j \in 0..(ci - 1) : ~Disorder(j)
  /\ cres \in {"sorted", "eof", "order"} =>
       (cres = "sorted" <=>
          /\ HeadersParse(N)
          /\ \A j \in 0..(N - 1) : ~Disorder(j))

\* C20: a failed open, stat, map or truncate in the index builder or in the
\* rewriter ends the run: no later phase runs (no verification after a failed
\* rewrite) and the driver does not finish successfully
C20_IoFailureFatal ==
  /\ rwpc = "failed" => mpc \notin {"check", "exit0"}
  /\ mpc = "exit1" => rwpc = "off" /\ cres = "none" /\ bpc # "done"

\* C21: on an input already sorted by key (equal keys allowed) the sort leaves
\* the index in its original order and the output equals the input byte for byte
C21_SortedInputUnchanged ==
  (/\ file_sz = FileSize(file)
   /\ \A i \in 1..(N - 1) : file[i].key <= file[i + 1].key
   /\ mpc \in {"rewrite", "check", "exit0"}) =>
     /\ idx = BuiltIndex(file)
     /\ rwpc = "done" => out_map = InputBytes

\* C22: with N = 0 the pipeline runs to completion: the run is not refused and
\* does not die, and it finishes with an output of size 0 that passed the scan
C22_EmptyInputCompletes ==
  N = 0 =>
    /\ mpc \notin {"exit1", "killed"}
    /\ mpc = "exit0" => out_map = <<>> /\ CheckPassed

\* C23: in omp_mmap.cpp no base sort and no merge reads or writes an index
\* entry before the builder has written it, for every N >= 1 and cutoff >= 1
C23_OmpNoEarlyAccess == ~uninit

\* C24: in the farm a Sort leaf over [L, R] sorts only after filled >= R + 1, a
\* Merge handed to a worker finds its whole range written without waiting on
\* the gate, and no Sort or Merge touches an entry the builder has not written
C24_FarmNoEarlyAccess ==
  /\ ~uninit
  /\ \A w \in Workers :
       /\ wpc[w] = "sort" => filled >= tasks[wcur[w]].right + 1
       /\ (wpc[w] = "svc" /\ tasks[wcur[w]].kind = "Merge") =>
            bi >= tasks[wcur[w]].right + 1
C24_Witness ==
  /\ bi < N
  /\ \E w \in Workers : wpc[w] = "svc" /\ tasks[wcur[w]].kind = "Merge"
  /\ \E w \in Workers : wpc[w] = "svc" /\ tasks[wcur[w]].kind = "BuildIndex"

\* the root of the task tree: the sort or merge task without a parent
RootTasks == {t \in DOMAIN tasks : tasks[t].kind # "BuildIndex" /\ tasks[t].parent = NULL}

\* C25: the emitter step that emits end-of-stream is taken only when the work
\* of the root task has executed, never on enqueuing the root and never on the
\* completion message of a child of the root
C25_EosAfterRoot ==
  [][(epc = "check" /\ epc' = "done") => \E t \in RootTasks : ran[t] >= 1]_vars

\* C26: in fastflow.cpp every internal node goes Waiting(2), Waiting(1), Ready,
\* Executing, Done: its counter only steps down by one from 2 to 0, it is sent
\* to a worker when the counter reaches 0 and only then, it executes once, and
\* at shutdown every internal node, the root included, has executed
C26_InternalNodeLifecycle ==
  /\ \A t \in MergeTasks :
       /\ tasks[t].remain \in 0..2
       /\ enq[t] = (IF tasks[t].remain = 0 THEN 1 ELSE 0)
       /\ ran[t] <= enq[t]
       /\ FarmDown => enq[t] = 1 /\ ran[t] = 1
  /\ FarmDown => ran[root] = 1

\* the workers (farm) and threads (recursive form) that are executing a base
\* sort or a merge, and the index range of the task each has in hand
FarmExecuting ==
  {w \in Workers : \/ wpc[w] = "sort"
                   \/ wpc[w] = "svc" /\ tasks[wcur[w]].kind = "Merge"}
OmpExecuting ==
  {th \in Threads : /\ ostack[th] # <<>>
                    /\ \/ otasks[Top(th)].st = "sort"
                       \/ /\ otasks[Top(th)].st = "taskwait"
                          /\ \A c \in DOMAIN otasks :
                               otasks[c].parent = Top(th) => otasks[c].st = "done"}
Disjoint(a, b) == a.right < b.left \/ b.right < a.left
\* the tasks over [left, mid] and [mid + 1, right] of a merge over [left, right]
Halves(arena, t, isChild(_, _)) ==
  LET mid == (arena[t].left + arena[t].right) \div 2
  IN {c \in DOMAIN arena :
        /\ isChild(c, t)
        /\ \/ arena[c].left = arena[t].left /\ arena[c].right = mid
           \/ arena[c].left = mid + 1 /\ arena[c].right = arena[t].right}
FarmChild(c, t) == tasks[c].parent = t /\ tasks[c].kind # "BuildIndex"
OmpChild(c, t) == otasks[c].parent = t /\ otasks[c].kind = "sort"

RECURSIVE BitXor(_, _)
BitXor(a, b) ==
  IF a = 0 /\ b = 0 THEN 0
  ELSE 2 * BitXor(a \div 2, b \div 2) + (IF a % 2 = b % 2 THEN 0 ELSE 1)
\* rank r is inside round k of the merge tree's loop
InRound(r, k) == rpc[r] = "tree" /\ rround[r] = k /\ Pow2(k) < P

\* C28: in round k the partner of a rank is rank XOR 2^k and the round is
\* skipped when the partner is not below P; of two ranks paired in round k
\* exactly one receives, the lower one, which sits on a 2^(k+1) boundary, and
\* every message of the round goes from the sender of a pair to its receiver
C28_PairingRule ==
  /\ [](\A r \in Ranks, k \in 0..MaxP :
          InRound(r, k) =>
            LET partner == PartnerOf(r, k)
            IN /\ partner = BitXor(r, Pow2(k))
               /\ r % Pow2(k) = 0
               /\ partner < P =>
                    /\ PartnerOf(partner, k) = r
                    /\ IReceive(r, k) # IReceive(partner, k)
                    /\ IReceive(Min(r, partner), k)
                    /\ Min(r, partner) % Pow2(k + 1) = 0)
  /\ [](\A m \in net :
          m.tag >= TAG_MERGE =>
            LET k == m.tag - TAG_MERGE
            IN /\ m.dst = BitXor(m.src, Pow2(k)) /\ m.dst < P
               /\ ~IReceive(m.src, k) /\ IReceive(m.dst, k)
               /\ rpc[m.src] = "done")
  /\ [][\A r \in Ranks :
          (rpc[r] = "tree" /\ rpc'[r] = "tree" /\ rround'[r] # rround[r]) =>
            \/ PartnerOf(r, rround[r]) >= P /\ local'[r] = local[r] /\ net' = net
            \/ PartnerOf(r, rround[r]) < P /\ IReceive(r, rround[r])]_vars
C28_Witness ==
  /\ P = 4 /\ InRound(0, 1)
  /\ \E m \in net : m.tag = TAG_MERGE + 1 /\ m.src = 2 /\ m.dst = 0

\* a merge-tree message from rank s with the tag of round k is in flight
InFlight(s, k) == \E m \in net : m.src = s /\ m.tag = TAG_MERGE + k

\* C29: a rank sends at most one message per round, a receive takes only the
\* message of its partner with the tag of the receiver's own round, every
\* message sent in the merge tree is eventually received, and none is left
\* when all ranks have finished
C29_MessagesMatched ==
  /\ [](\A m1, m2 \in net :
          (m1.tag >= TAG_MERGE /\ m1.src = m2.src /\ m1.tag = m2.tag) => m1 = m2)
  /\ [][\A m \in net :
          (m.tag >= TAG_MERGE /\ m \notin net') =>
            /\ rpc[m.dst] = "tree"
            /\ m.tag = TAG_MERGE + rround[m.dst]
            /\ m.src = PartnerOf(m.dst, rround[m.dst])
            /\ rround'[m.dst] = rround[m.dst] + 1]_vars
  /\ []((\A r \in Ranks : rpc[r] = "done") => net = {})
  /\ \A s \in 0..(MaxP - 1), k \in 0..MaxP : InFlight(s, k) ~> ~InFlight(s, k)

\* C30: a receiving round leaves the receiver with the merge of its slice and
\* the partner's: sorted by key, as long as its slice before plus what the
\* partner transmitted, holding the entries of both; for P = 4 ranks 0 and 2
\* hold count(own) + count(partner) entries after round 0 and rank 0 holds
\* all N entries after round 1
C30_ReceiverMerges ==
  /\ [][\A m \in net :
          (m.tag >= TAG_MERGE /\ m \notin net') =>
            /\ Len(local'[m.dst]) = Len(local[m.dst]) + Len(m.data)
            /\ IsSortedSeq(local'[m.dst])
            /\ IsPermOf(AsArray(local'[m.dst]), AsArray(local[m.dst] \o m.data))]_vars
  /\ [](P = 4 =>
          /\ \A r \in {0, 2} :
               (rpc[r] = "tree" /\ rround[r] = 1) =>
                 Len(local[r]) = count_for_rank(r, N, P) + count_for_rank(r + 1, N, P)
          /\ (rround[0] = 2 \/ rpc[0] = "done") => Len(local[0]) = N)

\* C9: filled never exceeds the number of entries the builder has written, and
\* a leaf whose wait_until(R + 1) has returned finds filled >= R + 1 and the
\* entries 0..R written
C9_GateBehindBuilder ==
  /\ filled <= bi
  /\ \A w \in Workers : wpc[w] = "sort" =>
       /\ filled >= tasks[wcur[w]].right + 1
       /\ bi >= tasks[wcur[w]].right + 1
C9_Witness ==
  \E w \in Workers : wpc[w] = "sort" /\ bi < N /\ filled = tasks[wcur[w]].right + 1

C31_SenderSendsOnce ==
  /\ [][\A m \in net' \ net :
          m.tag >= TAG_MERGE =>
            /\ m.data = local[m.src]
            /\ IsSortedSeq(m.data)
            /\ local'[m.src] = <<>>
            /\ rpc'[m.src] = "done"
            /\ \A m2 \in net' \ net : m2 = m]_vars
  /\ [][\A r \in Ranks :
          rpc[r] = "done" =>
            /\ rpc'[r] = "done" /\ local'[r] = local[r] /\ rround'[r] = rround[r]
            /\ \A m \in net' \ net : m.src # r
            /\ \A m \in net \ net' : m.dst # r]_vars

\* the sender rule without the order of the slice: one message with the whole
\* slice, then inactive
C31_SenderInactive ==
  /\ [][\A m \in net' \ net :
          m.tag >= TAG_MERGE =>
            /\ m.data = local[m.src]
            /\ local'[m.src] = <<>>
            /\ rpc'[m.src] = "done"]_vars
  /\ [][\A r \in Ranks :
          rpc[r] = "done" =>
            /\ rpc'[r] = "done" /\ local'[r] = local[r] /\ rround'[r] = rround[r]
            /\ \A m \in net' \ net : m.src # r
            /\ \A m \in net \ net' : m.dst # r]_vars

\* the slice messages of rank 0 to rank r that are in flight
SliceMsgs(r) == {m \in net : m.src = 0 /\ m.dst = r /\ m.tag = TAG_FULL_SLICE}
\* entry end(r) - 1 has been scanned, or the scan is over
SliceDue(r) == (end_idx(r, N, P) >= 1 /\ bi >= end_idx(r, N, P)) \/ bi = N
\* the slice of rank r has been posted: it is in flight or has been received
SlicePosted(r) == SliceMsgs(r) # {} \/ rpc[r] # "recv"

\* C32: during its scan rank 0 posts to every non-root rank r exactly one
\* message with the slice tag, when entry end(r) - 1 has been scanned and not
\* before, holding the entries start(r)..end(r)-1 in file order; it keeps
\* slice 0 and sends nothing to itself
C32_OneShotScatter ==
  /\ \A r \in Ranks \ {0} :
       /\ SliceDue(r) <=> SlicePosted(r)
       /\ Cardinality(SliceMsgs(r)) <= 1
       /\ SliceMsgs(r) # {} => rpc[r] = "recv"
       /\ \A m \in SliceMsgs(r) : m.data = RefSlice(r)
  /\ \A m \in net : m.tag = TAG_FULL_SLICE => m.src = 0 /\ m.dst \in Ranks \ {0}
  /\ rpc[0] = "sort" => local[0] = RefSlice(0)

\* the scatter rule for the ranks whose slice is not empty
ScatterOfNonEmpty ==
  /\ \A r \in Ranks \ {0} :
       /\ count_for_rank(r, N, P) > 0 =>
            (bi >= end_idx(r, N, P) <=> SlicePosted(r))
       /\ Cardinality(SliceMsgs(r)) <= 1
       /\ SliceMsgs(r) # {} => rpc[r] = "recv"
       /\ \A m \in SliceMsgs(r) : m.data = RefSlice(r)
  /\ \A m \in net : m.tag = TAG_FULL_SLICE => m.src = 0 /\ m.dst \in Ranks \ {0}
  /\ rpc[0] = "sort" => local[0] = RefSlice(0)

\* sort task t leaves the entry of mergesort_task in this step
Entering(t) ==
  /\ t \in DOMAIN otasks /\ otasks[t].kind = "sort"
  /\ otasks[t].st = "start" /\ otasks'[t].st # "start"
\* ... as a leaf: it goes to the gate wait and creates no task
EntersAsLeaf(t) == otasks'[t].st = "wait" /\ Len(otasks') = Len(otasks)
\* ... as an inner node: it creates the tasks of [L, mid] and [mid+1, R]
EntersAsSplit(t) ==
  LET L == otasks[t].left
      R == otasks[t].right
      mid == (L + R) \div 2
  IN /\ otasks'[t].st = "taskwait"
     /\ Len(otasks') = Len(otasks) + 2
     /\ \E c1, c2 \in DOMAIN otasks' \ DOMAIN otasks :
          /\ otasks'[c1] = OTask("sort", L, mid, t)
          /\ otasks'[c2] = OTask("sort", mid + 1, R, t)

\* C33: mergesort_task treats [L, R] as a leaf (gate wait for filled >= R + 1,
\* then the base sort, no subtasks) exactly when R - L + 1 <= cutoff and splits
\* at mid = (L + R) div 2 otherwise; every leaf waits on the gate before its
\* range is used
C33_LeafRule ==
  /\ [][\A t \in DOMAIN otasks :
          Entering(t) =>
            IF otasks[t].right - otasks[t].left + 1 <= cutoff
              THEN EntersAsLeaf(t) ELSE EntersAsSplit(t)]_vars
  /\ [][\A t \in DOMAIN otasks :
          (otasks[t].st = "wait" /\ otasks'[t].st # "wait") =>
            /\ filled >= otasks[t].right + 1
            /\ otasks'[t].st = "sort"]_vars

\* the rule mergesort_task of omp_mmap.cpp follows: a range of one entry
\* returns at once, a range of 2 .. cutoff + 1 entries is a leaf, a longer one
\* is split
LeafRuleOfCode ==
  /\ [][\A t \in DOMAIN otasks :
          Entering(t) =>
            LET span == otasks[t].right - otasks[t].left + 1
            IN IF span <= 1 THEN otasks'[t].st = "done" /\ Len(otasks') = Len(otasks)
               ELSE IF span <= cutoff + 1 THEN EntersAsLeaf(t)
               ELSE EntersAsSplit(t)]_vars
  /\ [][\A t \in DOMAIN otasks :
          (otasks[t].st = "wait" /\ otasks'[t].st # "wait") =>
            /\ filled >= otasks[t].right + 1
            /\ otasks'[t].st = "sort"]_vars

\* the nodes of the tree build_tasks has allocated, and the queued pointers
TreeNodes == {t \in DOMAIN tasks : tasks[t].kind # "BuildIndex"}
Span(t) == tasks[t].right - tasks[t].left + 1

\* the shape of the task tree: leaves by the cutoff, two children per Merge
\* node over the halves of its range, the leaves partition [0, N-1], one root
TreeWellFormed ==
    /\ \A t \in TreeNodes :
         /\ tasks[t].kind \in {"Sort", "Merge"}
         /\ tasks[t].kind = "Sort" <=> Span(t) <= cutoff
         /\ 0 <= tasks[t].left /\ tasks[t].left <= tasks[t].right
         /\ tasks[t].right <= N - 1
         /\ tasks[t].parent # NULL =>
              /\ tasks[t].parent \in TreeNodes /\ tasks[t].parent < t
              /\ tasks[tasks[t].parent].kind = "Merge"
         /\ tasks[t].kind = "Sort" => Children(t) = {}
         /\ tasks[t].kind = "Merge" =>
              /\ tasks[t].mid = (tasks[t].left + tasks[t].right) \div 2
              /\ Cardinality(Children(t)) = 2
              /\ \E c1, c2 \in Children(t) :
                   /\ tasks[c1].left = tasks[t].left
                   /\ tasks[c1].right = tasks[t].mid
                   /\ tasks[c2].left = tasks[t].mid + 1
                   /\ tasks[c2].right = tasks[t].right
    /\ \A i \in 0..(N - 1) :
         Cardinality({t \in TreeNodes : /\ tasks[t].kind = "Sort"
                                        /\ tasks[t].left <= i
                                        /\ i <= tasks[t].right}) = 1
    /\ Cardinality(RootTasks) = 1
    /\ \A t \in RootTasks : tasks[t].left = 0 /\ tasks[t].right = N - 1

\* C34: build_tasks over [0, N-1] yields a full binary tree: a node is a Sort
\* leaf iff R - L + 1 <= cutoff, a Merge node has exactly the two children
\* [L, mid] and [mid+1, R] with mid = (L + R) div 2, the leaves partition
\* [0, N-1] into non-empty ranges, exactly one node has a null parent; every
\* leaf and no internal node is pushed to the workers during the build
C34_BuildPhase ==
  /\ [](tasks # <<>> => TreeWellFormed)
  /\ [][(epc = "start" /\ epc' = "run") =>
          \A t \in DOMAIN tasks' :
            /\ tasks'[t].kind = "Sort" =>
                 Cardinality({<<w, k>> \in Workers \X (1..Len(tasks')) :
                                k \in DOMAIN inq'[w] /\ inq'[w][k] = t}) = 1
            /\ tasks'[t].kind = "Merge" =>
                 \A w \in Workers : \A k \in DOMAIN inq'[w] : inq'[w][k] # t]_vars

C34_Witness ==
  /\ N = 3 /\ cutoff = 1 /\ epc = "run"
  /\ Cardinality({t \in TreeNodes : tasks[t].kind = "Merge"}) = 2
  /\ Cardinality({t \in TreeNodes : tasks[t].kind = "Sort"}) = 3
  /\ \E w \in Workers : \E k \in DOMAIN inq[w] : tasks[inq[w][k]].kind = "Sort"

\* the index entries of the ranks r .. min(r + 2^k, P) - 1, a contiguous range
BlockEnd(r, k) == end_idx(Min(r + Pow2(k), P) - 1, N, P)
BlockEntries(r, k) ==
  {BuiltIndex(file)[j] : j \in start_idx(r, N, P)..(BlockEnd(r, k) - 1)}

\* C35: a rank that is active at the start of round k is a multiple of 2^k and
\* holds exactly the entries of the ranks of its 2^k block that exist,
\* count(rank) + ... + count(min(rank + 2^k, P) - 1) of them, sorted by key
C35_ActiveHoldsBlock ==
  \A r \in Ranks :
    (rpc[r] = "tree" /\ Pow2(rround[r]) < P) =>
      /\ r % Pow2(rround[r]) = 0
      /\ Len(local[r]) = BlockEnd(r, rround[r]) - start_idx(r, N, P)
      /\ Range(local[r]) = BlockEntries(r, rround[r])
      /\ IsSortedSeq(local[r])

\* the places where an index entry is: a position of a rank's local index or
\* a position of a message in flight
HeldPlaces == UNION {{<<r, k>> : k \in DOMAIN local[r]} : r \in Ranks}
FlightPlaces == UNION {{<<m, k>> : k \in DOMAIN m.data} : m \in net}
HeldAt(e) == {pl \in HeldPlaces : local[pl[1]][pl[2]] = e}
InFlightAt(e) == {pl \in FlightPlaces : pl[1].data[pl[2]] = e}

\* C36: from the end of the scatter on every one of the N index entries is
\* held by exactly one rank or is in exactly one message in flight, and the
\* entries held plus those in flight are N: none is duplicated, invented or lost
C36_EntriesConserved ==
  rpc[0] # "scan" =>
    /\ Cardinality(HeldPlaces) + Cardinality(FlightPlaces) = N
    /\ \A j \in 0..(N - 1) :
         Cardinality(HeldAt(BuiltIndex(file)[j]))
           + Cardinality(InFlightAt(BuiltIndex(file)[j])) = 1

\* the root of the sort has completed: the farm's root task has run, the task
\* of mergesort_task(idx, 0, N - 1) has ended
RootCompleted ==
  IF W > 0 THEN \A t \in RootTasks : ran[t] >= 1
  ELSE \E t \in DOMAIN otasks :
         /\ otasks[t].kind = "sort" /\ otasks[t].parent = 0 /\ otasks[t].st = "done"
\* a worker or a thread of the team is inside a task
SomeTaskRunning ==
  \/ \E w \in Workers : wpc[w] \notin {"idle", "done"}
  \/ \E t \in DOMAIN otasks : otasks[t].st # "done"

\* C37: in both overlapped drivers the rewriter starts only after the builder
\* has written all N entries and the root of the sort has completed; neither
\* the builder nor a sort or merge task runs while rewrite_sorted_mmap reads
\* the index, and no task is left in a queue
C37_RewriteAfterSort ==
  /\ [](rwpc # "off" =>
         /\ bi = N /\ bpc = "done" /\ filled = N
         /\ RootCompleted
         /\ ~SomeTaskRunning
         /\ \A w \in Workers : \A k \in DOMAIN inq[w] : inq[w][k] = EOS)
  /\ [][rwpc # "off" => idx' = idx]_vars

C37_Witness ==
  /\ rwpc = "copy" /\ ri = 1 /\ N = 3 /\ cutoff = 1
  /\ W > 0 /\ \A t \in MergeTasks : ran[t] = 1

\* C38: from the post of the non-blocking send of slice r until rank 0 has
\* waited for it, the buffer of slice r is not modified, reallocated or
\* released and holds what was posted; rank 0 has waited for every posted
\* send when it unmaps the input and returns
C38_SendBufferStable ==
  /\ [][\A r \in Ranks :
          send_req[r] = "posted" =>
            \/ per_rank'[r] = per_rank[r] /\ send_req'[r] = "posted"
            \/ send_req'[r] = "null" /\ rpc'[0] # "scan"]_vars
  /\ [](\A r \in Ranks :
          send_req[r] = "posted" =>
            /\ r # 0 /\ Len(per_rank[r]) = count_for_rank(r, N, P)
            /\ \A m \in SliceMsgs(r) : m.data = per_rank[r])
  /\ [](rpc[0] # "scan" => \A r \in Ranks : send_req[r] = "null")

C38_Witness ==
  /\ P = 3 /\ N = 3 /\ rpc[0] = "scan" /\ bi = 3
  /\ send_req[1] = "posted" /\ send_req[2] = "posted"
  /\ SliceMsgs(1) = {} /\ rpc[1] # "recv"

\* C39: check_if_sorted_mmap removes the output file when and only when the
\* scan succeeds; on every failure (open, stat or map error, unexpected end of
\* file, pair out of order) the file stays as it is and false is returned; the
\* unsorted input is never modified or removed
C39_RemovedIffSorted ==
  /\ [](cres # "none" => (CheckPassed <=> unlink_res = "ok"))
  /\ [](CheckFailed => unlink_res = "none")
  /\ [][/\ file' = file /\ file_sz' = file_sz
        /\ mpc = "check" => out_map' = out_map]_vars

\* C39, amended: the unlink is called when and only when the scan succeeds, and
\* the output file is removed unless that call fails, in which case true is
\* still returned; on every failure of the scan the file stays as it is, no
\* unlink is called and false is returned; the input is never touched
C39_UnlinkCalledIffSorted ==
  /\ [](cres # "none" => (CheckPassed <=> unlink_res \in {"ok", "failed"}))
  /\ [](CheckFailed => unlink_res = "none")
  /\ [][unlink_res' # unlink_res => cres = "run" /\ CheckPassed']_vars
  /\ [][/\ file' = file /\ file_sz' = file_sz
        /\ mpc = "check" => out_map' = out_map]_vars

C39_Witness == CheckPassed /\ unlink_res = "failed" /\ N = 2 /\ ci = 2

====
